---- MODULE Spec2Model ----
(***************************************************************************)
(* A model of the carbonapi query gateway core:                            *)
(*   - app/carbonzipper/http_handlers.go : the find / render / info        *)
(*     handlers, the top-level-domain backend filter and the error         *)
(*     reconciler errorsFanIn;                                             *)
(*   - pkg/parser/parser.go : the expression parser.                       *)
(*                                                                         *)
(* Go strings are modelled as sequences of one-character strings, so that  *)
(* lexing, slicing and concatenation are computed as the code computes     *)
(* them.                                                                   *)
(*                                                                         *)
(* The module holds several specifications over one set of variables:      *)
(*   SpecFanIn : errorsFanIn applied to bounded error vectors;             *)
(*   SpecTLD   : filterBackendByTopLevelDomain applied to bounded fleets,  *)
(*               routing tables and target lists;                          *)
(*   Spec      : one find / render / info request at a time, with the      *)
(*               concurrent fan-out to the selected backends;              *)
(*   SpecParse : ParseExpr applied to bounded expression texts, followed   *)
(*               by ToString and a second ParseExpr;                       *)
(*   SpecPipe  : ParseExpr applied to "X | F(args)" and to "F(X,args)";    *)
(*   SpecName  : parseName applied to bounded texts;                       *)
(*   SpecLead  : parseExprWithoutPipe applied to texts led by a sign or a  *)
(*               digit;                                                    *)
(*   SpecMetrics : Metrics() applied to parsed trees;                      *)
(*   SpecArgs  : the argument accessors applied to parsed calls;           *)
(*   SpecDivide : divideSeries applied to two series of one step.          *)
(***************************************************************************)
EXTENDS Integers, Sequences, FiniteSets, TLC

VARIABLES
    \* ---- errorsFanIn applied as a pure function (SpecFanIn)
    fErrs,        \* errs []error
    fN,           \* nBackends int
    fRes,         \* the returned error
    fPc,          \* "call" before the call, "done" after, "off" in other specs
    \* ---- the application object (App)
    backends,     \* app.backends
    tldCache,     \* what app.topLevelDomainCache.Get("tlds") holds
    \* ---- filterBackendByTopLevelDomain applied as a pure function (SpecTLD)
    tTargets,     \* targets []string
    tRes,         \* the returned []backend.Backend
    tPc,
    \* ---- one find / render / info request (Spec)
    pc,           \* "idle", "fanout" (blocked in backend.Finds/Renders/Infos), "done"
    endpoint,     \* the handler running: "find", "render", "info", "lbcheck"
    reqTarget,    \* req.FormValue("query") / req.FormValue("target")
    reqFormat,    \* req.FormValue("format")
    selected,     \* bs: the backends the request is sent to
    calls,        \* per selected backend: the state of its call
    ctxErr,       \* ctx.Err() != nil
    fanoutErrs,   \* errs: the errors the fan-out returned
    fanInErr,     \* err: errorsFanIn(errs, len(bs))
    early,        \* the handler returned before the fan-out
    w,            \* the http.ResponseWriter: what was written
    Metrics,      \* the expvar counters
    prom,         \* app.prometheusMetrics
    \* ---- ParseExpr, ToString and ParseExpr again (SpecParse)
    pIn,          \* e: the text handed to ParseExpr
    pTree,        \* what ParseExpr(e) returned
    pText,        \* the ToString() of the parsed tree
    pAgain,       \* what ParseExpr returned for that text
    pPc,          \* "input", "parsed", "printed", "reparsed"
    \* ---- "X | F(args)" against "F(X,args)" (SpecPipe)
    xText,        \* the text of X
    fArgs,        \* the argument entries of F, as written
    gArg,         \* the argument of G, as written
    bar,          \* the pipe operator as written: "|" or " | "
    xTree,        \* what ParseExpr returned for X
    piped,        \* ... for "X | F(args)"
    called,       \* ... for "F(X,args)"
    chainPiped,   \* ... for "X | F(args) | G(b)"
    chainCalled,  \* ... for "G(F(X,args),b)"
    qPc,          \* "x", "piped", "called", "chainPiped", "done"
    \* ---- one function of the package applied to one input (SpecName,
    \* ---- SpecLead, SpecMetrics, SpecArgs, SpecDivide)
    uIn,          \* the arguments of the call
    uOut,         \* what the call returned
    uPc           \* "call" before the call, "done" after, "off" in other specs

fanVars == <<fErrs, fN, fRes, fPc>>
appVars == <<backends, tldCache>>
tldVars == <<tTargets, tRes, tPc>>
reqVars ==
    <<pc, endpoint, reqTarget, reqFormat, selected, calls, ctxErr, fanoutErrs,
      fanInErr, early, w>>
cntVars == <<Metrics, prom>>
parseVars == <<pIn, pTree, pText, pAgain, pPc>>
pipeVars ==
    <<xText, fArgs, gArg, bar, xTree, piped, called, chainPiped, chainCalled, qPc>>
unitVars == <<uIn, uOut, uPc>>
parserVars == <<parseVars, pipeVars, unitVars>>
vars == <<fanVars, appVars, tldVars, reqVars, cntVars, parserVars>>

-----------------------------------------------------------------------------
(* Bounds of the model.                                                     *)

\* longest error vector handed to errorsFanIn in SpecFanIn
MaxErrs == 5
\* largest nBackends handed to errorsFanIn in SpecFanIn
MaxFanBackends == 5
\* backends known to the model: 1..NumBackends
NumBackends == 3
\* longest target list handed to filterBackendByTopLevelDomain in SpecTLD
MaxTargets == 2
\* requests served one after the other in Spec
MaxRequests == 1
\* most argument entries of a function call written in SpecParse and SpecPipe
MaxArgs == 2

-----------------------------------------------------------------------------
(* Generic helpers on sequences.                                            *)

Range(s) == {s[i] : i \in 1..Len(s)}

\* all sequences over S of length at most n
SeqsUpTo(S, n) == UNION {[1..k -> S] : k \in 0..n}

Min2(a, b) == IF a < b THEN a ELSE b

-----------------------------------------------------------------------------
(* Errors.  An error value carries whether its dynamic type is             *)
(* types.ErrNotFound and the text its Error() method returns.              *)

ErrNotFoundValue == [notFound |-> TRUE,  text |-> "not found"]
ErrTimeoutValue  == [notFound |-> FALSE, text |-> "context deadline exceeded"]
ErrOtherValue    == [notFound |-> FALSE, text |-> "connection refused"]

BackendErrors == {ErrNotFoundValue, ErrTimeoutValue, ErrOtherValue}

\* the error returned by errorsFanIn: its dynamic type, the constant part of
\* its message and the values formatted into it
NilError == [type |-> "nil", msg |-> "", total |-> 0, found |-> 0, counts |-> <<>>]

MoreErrorsThanBackends ==
    [type |-> "errorString",
     msg |-> "got more errors than there are backends. Probably something is broken",
     total |-> 0, found |-> 0, counts |-> <<>>]

\* nMajority := (nBackends + 1) / 2
nMajorityHalf(nBackends) == nBackends \div 2
nMajority(nBackends) == (nBackends + 1) \div 2

\* the loop counting the errors that ARE types.ErrNotFound
RECURSIVE nNotNotFoundsInverted(_, _)
nNotNotFoundsInverted(errs, k) ==
    IF k = 0 THEN 0
    ELSE nNotNotFoundsInverted(errs, k - 1) + (IF errs[k].notFound THEN 1 ELSE 0)

\* the loop over errs: nNotNotFounds after the first k errors
RECURSIVE nNotNotFounds(_, _)
nNotNotFounds(errs, k) ==
    IF k = 0 THEN 0
    ELSE nNotNotFounds(errs, k - 1) + (IF errs[k].notFound THEN 0 ELSE 1)

\* the loop over errs: counts[e.Error()] += 1
errorCounts(errs) ==
    [t \in {errs[i].text : i \in 1..Len(errs)} |->
        Cardinality({i \in 1..Len(errs) : errs[i].text = t})]

\* the default branch of errorsFanIn: everything failed
classifyAllFailed(errs, nBackends) ==
    LET nErrs == Len(errs)
        nNN   == nNotNotFounds(errs, nErrs)
    IN  IF nNN < nMajority(nBackends)
        THEN [type |-> "ErrNotFound",
              msg |-> "majority of backends returned not found",
              total |-> nErrs, found |-> nErrs - nNN, counts |-> <<>>]
        ELSE [type |-> "errorString",
              msg |-> "all backends failed with mixed errors",
              total |-> 0, found |-> 0, counts |-> errorCounts(errs)]

\* errorsFanIn without the nErrs < nBackends case
errorsFanInNoPartial(errs, nBackends) ==
    LET nErrs == Len(errs)
    IN  IF nErrs = 0 THEN NilError
        ELSE IF nErrs > nBackends THEN MoreErrorsThanBackends
        ELSE classifyAllFailed(errs, nBackends)

errorsFanIn(errs, nBackends) ==
    LET nErrs == Len(errs)
    IN  IF nErrs = 0 THEN NilError
        ELSE IF nErrs < nBackends THEN NilError
        ELSE IF nErrs > nBackends THEN MoreErrorsThanBackends
        ELSE classifyAllFailed(errs, nBackends)

\* a test for types.ErrNotFound that never succeeds
IsNotFoundNever(err) == err.type = "ErrNotFound" /\ err.type = "nil"

\* errors.As(err, &notFound)
IsNotFound(err) == err.type = "ErrNotFound"

-----------------------------------------------------------------------------
(* The top-level-domain filter.                                             *)

\* strings.SplitN(target, ".", 2)[0]: the text before the first '.'
RECURSIVE getTopLevelDomain(_)
getTopLevelDomain(target) ==
    IF target = <<>> \/ Head(target) = "." THEN <<>>
    ELSE <<Head(target)>> \o getTopLevelDomain(Tail(target))

\* GetServerAddress(): the address is the identity of a backend
GetServerAddress(b) == b

\* the inner loop of filterByTopLevelDomain over one tldBackends list
RECURSIVE addTLDBackends(_, _)
addTLDBackends(all, tldBackends) ==
    IF tldBackends = <<>> THEN all
    ELSE LET b == Head(tldBackends)
         IN  addTLDBackends(
                IF GetServerAddress(b) \in {GetServerAddress(x) : x \in Range(all)}
                THEN all ELSE Append(all, b),
                Tail(tldBackends))

\* the outer loop of filterByTopLevelDomain over targetTLDs; a TLD that is
\* not a key of the map yields the nil slice
RECURSIVE collectTLDBackends(_, _, _)
collectTLDBackends(all, m, targetTLDs) ==
    IF targetTLDs = <<>> THEN all
    ELSE LET t == Head(targetTLDs)
             l == IF t \in DOMAIN m THEN m[t] ELSE <<>>
         IN  collectTLDBackends(addTLDBackends(all, l), m, Tail(targetTLDs))

\* cache.kind: "missing" (Get finds nothing, or a value of another type),
\* "nilmap" (a nil map of the right type), "map" (cache.m is the map)
filterByTopLevelDomain(cache, bs, targetTLDs) ==
    IF cache.kind = "nilmap" THEN bs
    ELSE collectTLDBackends(<<>>,
                            IF cache.kind = "map" THEN cache.m ELSE <<>>,
                            targetTLDs)

\* filterBackendByTopLevelDomain without the fall-back to the fleet
filterBackendByTopLevelDomainNoFallback(cache, fleet, targets) ==
    filterByTopLevelDomain(cache, fleet,
        [i \in 1..Len(targets) |-> getTopLevelDomain(targets[i])])

filterBackendByTopLevelDomain(cache, fleet, targets) ==
    LET targetTlds == [i \in 1..Len(targets) |-> getTopLevelDomain(targets[i])]
        bs == filterByTopLevelDomain(cache, fleet, targetTlds)
    IN  IF Len(bs) > 0 THEN bs ELSE fleet

-----------------------------------------------------------------------------
(* The HTTP handlers: constants, the response writer and the counters.      *)

StatusOK == 200
StatusBadRequest == 400
StatusNotFound == 404
StatusInternalServerError == 500
\* the code logged when writing the response fails
StatusClientClosedRequest == 499

contentTypeJSON     == "application/json"
contentTypeProtobuf == "application/x-protobuf"
contentTypePickle   == "application/pickle"
\* the content type http.Error sets
contentTypeText     == "text/plain; charset=utf-8"

formatTypeEmpty     == ""
formatTypePickle    == "pickle"
formatTypeJSON      == "json"
formatTypeProtobuf  == "protobuf"
formatTypeProtobuf3 == "protobuf3"

Handlers == {"find", "render", "info"}
HTTPCodes == {StatusOK, StatusBadRequest, StatusNotFound, StatusInternalServerError}

\* the values of the format parameter: the five known ones and one more
ReqFormats ==
    {formatTypeEmpty, formatTypePickle, formatTypeJSON, formatTypeProtobuf,
     formatTypeProtobuf3, "xml"}

\* the values of the query / target parameter: "", "a.b" and "c.a.b"
ReqTargets == {<<>>, <<"a", ".", "b">>, <<"c", ".", "a", ".", "b">>}

\* nothing written yet.  status: the status line sent; text: the body of an
\* http.Error; data: the backends whose replies the encoded blob holds;
\* logCode: the http_code of the handler's last log line
NoResponse ==
    [status |-> 0, contentType |-> "", text |-> "", data |-> {}, logCode |-> 0]

\* http.Error(w, text, code)
httpError(text, code) ==
    [status |-> code, contentType |-> contentTypeText, text |-> text, data |-> {},
     logCode |-> code]

\* w.Header().Set("Content-Type", contentType); w.Write(blob), and the code
\* the handler logs afterwards
writeBlob(contentType, data, writeFails) ==
    [status |-> StatusOK, contentType |-> contentType, text |-> "", data |-> data,
     logCode |-> IF writeFails THEN StatusClientClosedRequest ELSE StatusOK]

ZeroMetrics ==
    [Requests |-> 0, FindRequests |-> 0, RenderRequests |-> 0, InfoRequests |-> 0,
     Errors |-> 0, Responses |-> 0]

ZeroProm ==
    [Requests |-> 0,
     Responses |-> [k \in HTTPCodes \X (Handlers \cup {"lbcheck"}) |-> 0],
     RequestCancel |-> [h \in Handlers |-> 0],
     FindNotFound |-> 0]

\* app.prometheusMetrics.Responses.WithLabelValues(strconv.Itoa(code), h).Inc()
IncResponses(p, code, h) == [p EXCEPT !.Responses[<<code, h>>] = @ + 1]

\* the same counter, labelled with status 200 whatever was sent
IncResponsesAlwaysOK(p, code, h) == [p EXCEPT !.Responses[<<StatusOK, h>>] = @ + 1]

\* app.prometheusMetrics.RequestCancel.WithLabelValues(label, ctx.Err().Error()).Inc()
\* when ctx.Err() != nil
IncRequestCancel(p, label, cancelled) ==
    IF cancelled THEN [p EXCEPT !.RequestCancel[label] = @ + 1] ELSE p

\* the format switch of findHandler and renderHandler: the content type, or
\* "" for the default case (err = "Unknown format")
findContentType(f) ==
    IF f \in {formatTypeProtobuf, formatTypeProtobuf3} THEN contentTypeProtobuf
    ELSE IF f = formatTypeJSON THEN contentTypeJSON
    ELSE IF f \in {formatTypeEmpty, formatTypePickle} THEN contentTypePickle
    ELSE ""

\* the format switch of infoHandler
infoContentType(f) ==
    IF f \in {formatTypeProtobuf, formatTypeProtobuf3} THEN contentTypeProtobuf
    ELSE IF f \in {formatTypeEmpty, formatTypeJSON} THEN contentTypeJSON
    ELSE ""

\* the state of one backend call of the fan-out
CallPending == [state |-> "pending", err |-> [notFound |-> FALSE, text |-> ""]]
CallReplied == [state |-> "ok",      err |-> [notFound |-> FALSE, text |-> ""]]
CallFailed(e) == [state |-> "failed", err |-> e]

\* backend.Filter(bs, targets): the backends whose pattern predicate accepts
\* the targets; the predicate is the set matching
Filter(sel, matching) == SelectSeq(sel, LAMBDA b : b \in matching)

\* the errors the fan-out returns, one per failed backend
RECURSIVE gatherErrs(_, _)
gatherErrs(sel, cs) ==
    IF sel = <<>> THEN <<>>
    ELSE (IF cs[Head(sel)].state = "failed" THEN <<cs[Head(sel)].err>> ELSE <<>>)
         \o gatherErrs(Tail(sel), cs)

\* the backends whose replies the fan-out gathered
gatherReplies(sel, cs) == {b \in Range(sel) : cs[b].state = "ok"}

-----------------------------------------------------------------------------
(* The expression parser (pkg/parser/parser.go).                            *)

\* ---- characters

LowerLetters ==
    <<"a", "b", "c", "d", "e", "f", "g", "h", "i", "j", "k", "l", "m",
      "n", "o", "p", "q", "r", "s", "t", "u", "v", "w", "x", "y", "z">>
UpperLetters ==
    <<"A", "B", "C", "D", "E", "F", "G", "H", "I", "J", "K", "L", "M",
      "N", "O", "P", "Q", "R", "S", "T", "U", "V", "W", "X", "Y", "Z">>
DigitChars == <<"0", "1", "2", "3", "4", "5", "6", "7", "8", "9">>

LetterSet == Range(LowerLetters) \cup Range(UpperLetters)
DigitSet == Range(DigitChars)

\* unicode.IsLetter, on the characters of the model
IsLetter(c) == c \in LetterSet

\* unicode.IsSpace, on the characters of the model
IsSpace(c) == c \in {" ", "\t", "\n", "\r", "\f"}

isDigit(r) == r \in DigitSet

\* the characters IsNameChar accepts besides letters and digits
NamePunctuation == {".", "_", "-", "*", "?", ":", "^", "$", "<", ">", "&", "#"}

IsNameChar(r) == r \in LetterSet \/ r \in DigitSet \/ r \in NamePunctuation

\* the characters RangeTables adds to the name characters; the package
\* variable is nil unless the application sets it
RangeTableChars == {}

\* strings.ToLower
ToLowerChar(c) ==
    IF c \in Range(UpperLetters)
    THEN LowerLetters[CHOOSE i \in 1..Len(UpperLetters) : UpperLetters[i] = c]
    ELSE c
ToLower(str) == [i \in 1..Len(str) |-> ToLowerChar(str[i])]

\* s[i:] for a 0-based i
Drop(str, i) == SubSeq(str, i + 1, Len(str))
\* s[:i] for a 0-based i
Take(str, i) == SubSeq(str, 1, i)

\* strings.TrimLeftFunc(e, unicode.IsSpace)
RECURSIVE TrimLeftSpace(_)
TrimLeftSpace(str) ==
    IF str # <<>> /\ IsSpace(Head(str)) THEN TrimLeftSpace(Tail(str)) ELSE str

\* for len(e) > 1 && unicode.IsSpace(rune(e[0])) { e = e[1:] }
RECURSIVE SkipSpace(_)
SkipSpace(str) ==
    IF Len(str) > 1 /\ IsSpace(Head(str)) THEN SkipSpace(Tail(str)) ELSE str

\* strings.Replace(s, old, new, -1) for a one-character old
RECURSIVE ReplaceChar(_, _, _)
ReplaceChar(str, old, new) ==
    IF str = <<>> THEN <<>>
    ELSE (IF Head(str) = old THEN new ELSE <<Head(str)>>)
         \o ReplaceChar(Tail(str), old, new)

\* ---- float64 values.  A value is sign, decimal mantissa and decimal
\* ---- exponent, the mantissa without trailing zeros: the decimal that
\* ---- strconv's shortest formatting prints.  Exact for the constants of at
\* ---- most 15 significant digits, which is all the model writes.

ZeroVal == [neg |-> FALSE, mant |-> 0, exp |-> 0]

RECURSIVE NormalizeVal(_, _, _)
NormalizeVal(neg, m, x) ==
    IF m = 0 THEN [neg |-> neg, mant |-> 0, exp |-> 0]
    ELSE IF m % 10 = 0 THEN NormalizeVal(neg, m \div 10, x + 1)
    ELSE [neg |-> neg, mant |-> m, exp |-> x]

DigitVal(c) == CHOOSE d \in 0..9 : DigitChars[d + 1] = c

RECURSIVE NatOf(_)
NatOf(txt) ==
    IF txt = <<>> THEN 0
    ELSE NatOf(Take(txt, Len(txt) - 1)) * 10 + DigitVal(txt[Len(txt)])

RECURSIVE NatDigits(_)
NatDigits(n) ==
    IF n < 10 THEN <<DigitChars[n + 1]>>
    ELSE NatDigits(n \div 10) \o <<DigitChars[(n % 10) + 1]>>

AllDigits(txt) == \A i \in 1..Len(txt) : isDigit(txt[i])

\* strconv.ParseFloat(t, 64) for t made of digits, '.', '+', '-', 'e', 'E':
\*   [+-] ( digits [ . [digits] ] | . digits ) [ (e|E) [+-] digits ]
\* err is "" or the error: "ErrSyntax", or "ErrRange" beyond float64's range
ParseFloat(t) ==
    LET signed  == t # <<>> /\ t[1] \in {"+", "-"}
        neg     == signed /\ t[1] = "-"
        body    == IF signed THEN Tail(t) ELSE t
        ePos    == {i \in 1..Len(body) : body[i] \in {"e", "E"}}
        firstE  == CHOOSE i \in ePos : \A j \in ePos : i <= j
        mantTxt == IF ePos = {} THEN body ELSE Take(body, firstE - 1)
        expTxt  == IF ePos = {} THEN <<>> ELSE Drop(body, firstE)
        dots    == {i \in 1..Len(mantTxt) : mantTxt[i] = "."}
        dot     == CHOOSE i \in dots : TRUE
        intTxt  == IF dots = {} THEN mantTxt ELSE Take(mantTxt, dot - 1)
        fracTxt == IF dots = {} THEN <<>> ELSE Drop(mantTxt, dot)
        mantOK  == /\ Cardinality(dots) <= 1
                   /\ AllDigits(intTxt) /\ AllDigits(fracTxt)
                   /\ Len(intTxt) + Len(fracTxt) >= 1
        expSgn  == expTxt # <<>> /\ expTxt[1] \in {"+", "-"}
        expDig  == IF expSgn THEN Tail(expTxt) ELSE expTxt
        expOK   == ePos = {} \/ (expDig # <<>> /\ AllDigits(expDig))
        expVal  == IF ePos = {} THEN 0
                   ELSE IF expSgn /\ expTxt[1] = "-" THEN 0 - NatOf(expDig)
                   ELSE NatOf(expDig)
        v       == NormalizeVal(neg, NatOf(intTxt \o fracTxt), expVal - Len(fracTxt))
        dp      == Len(NatDigits(v.mant)) + v.exp
    IN  IF ~(mantOK /\ expOK) THEN [val |-> ZeroVal, err |-> "ErrSyntax"]
        ELSE IF v.mant # 0 /\ dp > 309 THEN [val |-> ZeroVal, err |-> "ErrRange"]
        ELSE IF v.mant # 0 /\ dp < 0 - 323
             THEN [val |-> [neg |-> neg, mant |-> 0, exp |-> 0], err |-> ""]
        ELSE [val |-> v, err |-> ""]

\* fmt.Sprint(val): strconv's 'g' format with the shortest precision
FormatFloat(v) ==
    LET digs == IF v.mant = 0 THEN <<>> ELSE NatDigits(v.mant)
        nd   == Len(digs)
        dp   == IF v.mant = 0 THEN 0 ELSE nd + v.exp
        x    == dp - 1
        sign == IF v.neg THEN <<"-">> ELSE <<>>
        xAbs == NatDigits(IF x < 0 THEN 0 - x ELSE x)
    IN  IF x < 0 - 4 \/ x >= 6
        THEN sign \o <<digs[1]>>
             \o (IF nd > 1 THEN <<".">> \o Drop(digs, 1) ELSE <<>>)
             \o <<"e", IF x < 0 THEN "-" ELSE "+">>
             \o (IF Len(xAbs) < 2 THEN <<"0">> \o xAbs ELSE xAbs)
        ELSE sign
             \o (IF dp <= 0 THEN <<"0">>
                 ELSE [i \in 1..dp |-> IF i <= nd THEN digs[i] ELSE "0"])
             \o (IF nd > dp
                 THEN <<".">> \o [i \in 1..(nd - dp) |->
                                    IF dp + i >= 1 THEN digs[dp + i] ELSE "0"]
                 ELSE <<>>)

\* ---- expression nodes

EtName   == "EtName"
EtFunc   == "EtFunc"
EtConst  == "EtConst"
EtString == "EtString"

\* &expr{...}: the fields not given are zero
MkExpr(etype, target, val, valStr) ==
    [etype |-> etype, target |-> target, val |-> val, valStr |-> valStr,
     args |-> <<>>, namedArgs |-> <<>>, argString |-> <<>>]

\* the nil Expr
NilExpr == MkExpr("nil", <<>>, ZeroVal, <<>>)

\* the EtString case of ToString
QuoteString(valStr) ==
    <<"'">>
    \o ReplaceChar(ReplaceChar(valStr, "\\", <<"\\", "\\">>), "'", <<"\\", "'">>)
    \o <<"'">>

ExprToString(x) ==
    IF x.etype = EtFunc THEN x.target \o <<"(">> \o x.argString \o <<")">>
    ELSE IF x.etype = EtConst THEN FormatFloat(x.val)
    ELSE IF x.etype = EtString THEN QuoteString(x.valStr)
    ELSE x.target

\* insertFirstArg appending the expression after the arguments
insertFirstArgLast(callee, x) ==
    IF callee.etype # EtFunc THEN [exp |-> callee, err |-> "pipe to not a function"]
    ELSE [exp |-> [callee EXCEPT
                     !.args = callee.args \o <<x>>,
                     !.argString = IF callee.argString = <<>> THEN ExprToString(x)
                                   ELSE callee.argString \o <<",">> \o ExprToString(x)],
          err |-> ""]

\* callee.insertFirstArg(x): the callee after the call, and the error
insertFirstArg(callee, x) ==
    IF callee.etype # EtFunc THEN [exp |-> callee, err |-> "pipe to not a function"]
    ELSE [exp |-> [callee EXCEPT
                     !.args = <<x>> \o callee.args,
                     !.argString = IF callee.argString = <<>> THEN ExprToString(x)
                                   ELSE ExprToString(x) \o <<",">> \o callee.argString],
          err |-> ""]

\* ---- the lexers

\* the characters parseConst slurps
IsConstChar(c) == isDigit(c) \/ c \in {".", "+", "-", "e", "E"}

RECURSIVE ConstRun(_, _)
ConstRun(str, i) ==
    IF i < Len(str) /\ IsConstChar(str[i + 1]) THEN ConstRun(str, i + 1) ELSE i

\* parseConst after the loop: i characters slurped, f what ParseFloat made of them
parseConstOf(str, i, f) ==
    IF f.err # "" THEN [val |-> ZeroVal, tail |-> <<>>, err |-> f.err]
    ELSE [val |-> f.val, tail |-> Drop(str, i), err |-> ""]

parseConstAt(str, i) == parseConstOf(str, i, ParseFloat(Take(str, i)))

\* parseConst(s): val, tail and err
parseConst(str) == parseConstAt(str, ConstRun(str, 0))

RECURSIVE StringRun(_, _, _)
StringRun(str, i, match) ==
    IF i < Len(str) /\ str[i + 1] # match THEN StringRun(str, i + 1, match) ELSE i

\* parseString after the loop: i characters before the closing quote
parseStringAt(rest, i) ==
    IF i = Len(rest) THEN [val |-> <<>>, tail |-> <<>>, err |-> "ErrMissingQuote"]
    ELSE [val |-> Take(rest, i), tail |-> Drop(rest, i + 1), err |-> ""]

\* parseString(s), for s starting with a quote: val, tail and err
parseString(str) == parseStringAt(Tail(str), StringRun(Tail(str), 0, str[1]))

\* the loop of parseName from index i (0-based) with the given depths: the
\* index it stops at and the error
RECURSIVE NameRun(_, _, _, _)
NameRun(str, i, braces, brackets) ==
    IF i >= Len(str) THEN [i |-> i, braces |-> braces, brackets |-> brackets, err |-> ""]
    ELSE
      LET c       == str[i + 1]
          stop    == [i |-> i, braces |-> braces, brackets |-> brackets, err |-> ""]
          fail(x) == [i |-> i, braces |-> braces, brackets |-> brackets, err |-> x]
      IN  IF IsNameChar(c) THEN NameRun(str, i + 1, braces, brackets)
          ELSE IF c = "{" THEN
              IF brackets > 0 THEN fail("ErrBraceInBrackets")
              ELSE NameRun(str, i + 1, braces + 1, brackets)
          ELSE IF c = "}" THEN
              IF brackets > 0 THEN fail("ErrBraceInBrackets")
              ELSE IF braces = 0 THEN fail("ErrMissingBrace")
              ELSE NameRun(str, i + 1, braces - 1, brackets)
          ELSE IF c = "[" THEN
              IF brackets > 0 THEN fail("ErrNestedBrackets")
              ELSE NameRun(str, i + 1, braces, brackets + 1)
          ELSE IF c = "]" THEN
              IF brackets = 0 THEN fail("ErrMissingBracket")
              ELSE NameRun(str, i + 1, braces, brackets - 1)
          ELSE IF c = "," THEN
              IF brackets > 0 THEN fail("ErrCommaInBrackets")
              ELSE IF braces = 0 THEN stop
              ELSE NameRun(str, i + 1, braces, brackets)
          ELSE IF c \in {" ", "\t", "\n"} THEN
              IF braces > 0 THEN fail("ErrSpacesInBraces")
              ELSE IF brackets > 0 THEN fail("ErrSpacesInBrackets")
              ELSE stop
          ELSE IF c \in RangeTableChars THEN NameRun(str, i + 1, braces, brackets)
          ELSE stop

\* parseName returning the whole text as the name where the loop stopped early
parseNameOfWholeText(str, r) ==
    IF r.err # "" THEN [name |-> str, tail |-> <<>>, err |-> r.err]
    ELSE IF r.braces > 0 THEN [name |-> str, tail |-> <<>>, err |-> "ErrMissingBrace"]
    ELSE IF r.brackets > 0 THEN [name |-> str, tail |-> <<>>, err |-> "ErrMissingBracket"]
    ELSE [name |-> str, tail |-> <<>>, err |-> ""]

\* parseName without the check for a brace left open
parseNameOfOpenBrace(str, r) ==
    IF r.err # "" THEN [name |-> str, tail |-> <<>>, err |-> r.err]
    ELSE IF r.brackets > 0 THEN [name |-> str, tail |-> <<>>, err |-> "ErrMissingBracket"]
    ELSE IF r.i = Len(str) THEN [name |-> str, tail |-> <<>>, err |-> ""]
    ELSE [name |-> Take(str, r.i), tail |-> Drop(str, r.i), err |-> ""]

\* parseName without the check for a bracket left open
parseNameOfOpenBracket(str, r) ==
    IF r.err # "" THEN [name |-> str, tail |-> <<>>, err |-> r.err]
    ELSE IF r.braces > 0 THEN [name |-> str, tail |-> <<>>, err |-> "ErrMissingBrace"]
    ELSE IF r.i = Len(str) THEN [name |-> str, tail |-> <<>>, err |-> ""]
    ELSE [name |-> Take(str, r.i), tail |-> Drop(str, r.i), err |-> ""]

\* parseName after the loop
parseNameOf(str, r) ==
    IF r.err # "" THEN [name |-> str, tail |-> <<>>, err |-> r.err]
    ELSE IF r.braces > 0 THEN [name |-> str, tail |-> <<>>, err |-> "ErrMissingBrace"]
    ELSE IF r.brackets > 0 THEN [name |-> str, tail |-> <<>>, err |-> "ErrMissingBracket"]
    ELSE IF r.i = Len(str) THEN [name |-> str, tail |-> <<>>, err |-> ""]
    ELSE [name |-> Take(str, r.i), tail |-> Drop(str, r.i), err |-> ""]

\* parseName(s): name, tail and err
parseName(str) == parseNameOf(str, NameRun(str, 0, 0, 0))

\* ---- the parsers.  A parse result is the expression (NilExpr for nil), the
\* ---- rest of the text and the error ("" for nil).

ParseResult(exp, e, err) == [exp |-> exp, e |-> e, err |-> err]

ArgListResult(argString, args, namedArgs, e, err) ==
    [argString |-> argString, args |-> args, namedArgs |-> namedArgs,
     e |-> e, err |-> err]

\* return "", nil, nil, e, err
ArgListError(e, err) == ArgListResult(<<>>, <<>>, <<>>, e, err)

\* argString[:len(argString)-len(e)]
Consumed(argString, e) == Take(argString, Len(argString) - Len(e))

\* the text parseArgList would keep if it wrote every entry canonically
ArgTextCanonical(exp, consumed) == ExprToString(exp)

\* the text parseArgList keeps for a positional entry
ArgText(exp, consumed) ==
    IF exp.etype = EtFunc THEN ExprToString(exp) ELSE consumed

\* argStringBuffer after one more entry
WriteArg(buffer, text) ==
    IF Len(buffer) > 0 THEN buffer \o <<",">> \o text ELSE text

\* namedArgs[key] = exp
SetNamedArg(namedArgs, key, exp) ==
    [k \in (DOMAIN namedArgs) \cup {key} |-> IF k = key THEN exp ELSE namedArgs[k]]

BoolNames == {<<"t", "r", "u", "e">>, <<"f", "a", "l", "s", "e">>}

RECURSIVE ParseExpr(_)
RECURSIVE parseExprWithoutPipe(_)
RECURSIVE pipe(_, _)
RECURSIVE parseArgList(_)
RECURSIVE parseArgs(_, _, _, _)

\* return &expr{val: val, etype: EtConst}, tail, err
constExpr(c) == ParseResult(MkExpr(EtConst, <<>>, c.val, <<>>), c.tail, c.err)

\* return &expr{valStr: val, etype: EtString}, tail, err
stringExpr(s) == ParseResult(MkExpr(EtString, <<>>, ZeroVal, s.val), s.tail, s.err)

\* exp := &expr{target: name, etype: EtFunc} filled by parseArgList
funcExpr(name, a) ==
    ParseResult([MkExpr(EtFunc, name, ZeroVal, <<>>) EXCEPT
                   !.argString = a.argString,
                   !.args = a.args,
                   !.namedArgs = a.namedArgs],
                a.e, a.err)

\* parseExprWithoutPipe after parseName returned n; t is the tail without its
\* leading whitespace
nameExpr(n, t) ==
    IF n.err # "" THEN ParseResult(NilExpr, n.tail, n.err)
    ELSE IF ToLower(n.name) \in BoolNames
    THEN ParseResult(MkExpr(EtString, n.name, ZeroVal, n.name), n.tail, "")
    ELSE IF n.name = <<>> THEN ParseResult(NilExpr, n.tail, "ErrMissingArgument")
    ELSE IF t # <<>> /\ t[1] = "(" THEN funcExpr(n.name, parseArgList(t))
    ELSE ParseResult(MkExpr(EtName, n.name, ZeroVal, <<>>), t, "")

nameExprOf(n) == nameExpr(n, TrimLeftSpace(n.tail))

\* parseExprWithoutPipe from parseName on
parsedName(e) == nameExprOf(parseName(e))

\* parseExprWithoutPipe after parseConst returned c
afterConst(e, c) ==
    IF ~(c.tail # <<>> /\ IsLetter(c.tail[1])) THEN constExpr(c) ELSE parsedName(e)

\* parseExprWithoutPipe after the leading whitespace
parseExprAt(e) ==
    IF Len(e) = 0 THEN ParseResult(NilExpr, <<>>, "ErrMissingExpr")
    ELSE IF isDigit(e[1]) \/ e[1] = "-" \/ e[1] = "+" THEN afterConst(e, parseConst(e))
    ELSE IF e[1] = "'" \/ e[1] = "\"" THEN stringExpr(parseString(e))
    ELSE parsedName(e)

parseExprWithoutPipe(e) == parseExprAt(SkipSpace(e))

\* ParseExpr after parseExprWithoutPipe returned r
pipeAccepted(r) == IF r.err # "" THEN r ELSE pipe(r.exp, r.e)

ParseExpr(e) == pipeAccepted(parseExprWithoutPipe(e))

\* pipe after wr.insertFirstArg(exp) returned ins
pipeInserted(exp, wr, ins) ==
    IF ins.err # "" THEN ParseResult(exp, wr.e, ins.err) ELSE pipe(ins.exp, wr.e)

\* pipe after parseExprWithoutPipe(e[1:]) returned wr
pipeInto(exp, wr) ==
    IF wr.err # "" THEN ParseResult(exp, wr.e, wr.err)
    ELSE pipeInserted(exp, wr, insertFirstArg(wr.exp, exp))

\* pipe after the leading whitespace
pipeAt(exp, e) ==
    IF e = <<>> \/ e[1] # "|" THEN ParseResult(exp, e, "")
    ELSE pipeInto(exp, parseExprWithoutPipe(Tail(e)))

pipe(exp, e) == pipeAt(exp, SkipSpace(e))

\* parseArgList after '(': t is e without its leading whitespace
parseArgListAt(e, t) ==
    IF t # <<>> /\ t[1] = ")" THEN ArgListResult(<<>>, <<>>, <<>>, Tail(t), "")
    ELSE parseArgs(e, <<>>, <<>>, <<>>)

parseArgList(e) == parseArgListAt(Tail(e), TrimLeftSpace(Tail(e)))

\* the end of a round of parseArgList's loop: t is e without its leading
\* whitespace
afterArgAt(t, posArgs, namedArgs, buffer) ==
    IF Len(t) = 0 THEN ArgListError(<<>>, "ErrUnexpectedCharacter")
    ELSE IF t[1] = ")" THEN ArgListResult(buffer, posArgs, namedArgs, Tail(t), "")
    ELSE IF t[1] # "," /\ t[1] # " " THEN ArgListError(<<>>, "ErrUnexpectedCharacter")
    ELSE parseArgs(Tail(t), posArgs, namedArgs, buffer)

afterArg(e, posArgs, namedArgs, buffer) ==
    afterArgAt(TrimLeftSpace(e), posArgs, namedArgs, buffer)

\* the key=value branch after ParseExpr returned q for the value
namedArg(argString, posArgs, namedArgs, buffer, key, q) ==
    IF q.err # "" THEN ArgListError(q.e, q.err)
    ELSE IF q.e = <<>> THEN ArgListError(<<>>, "ErrMissingComma")
    ELSE IF q.exp.etype \notin {EtConst, EtName, EtString}
    THEN ArgListError(q.e, "ErrBadType")
    ELSE afterArg(q.e, posArgs,
                  SetNamedArg(namedArgs, key,
                              MkExpr(q.exp.etype, q.exp.target, q.exp.val, q.exp.valStr)),
                  WriteArg(buffer, Consumed(argString, q.e)))

\* a round of the loop after ParseExpr returned p for the entry
parsedArg(argString, posArgs, namedArgs, buffer, p) ==
    IF p.err # "" THEN ArgListError(p.e, p.err)
    ELSE IF p.e = <<>> THEN ArgListError(<<>>, "ErrMissingComma")
    ELSE IF p.exp.etype = EtName /\ p.e[1] = "="
    THEN namedArg(argString, posArgs, namedArgs, buffer, p.exp.target,
                  ParseExpr(Tail(p.e)))
    ELSE afterArg(p.e, posArgs \o <<p.exp>>, namedArgs,
                  WriteArg(buffer, ArgText(p.exp, Consumed(argString, p.e))))

\* the loop of parseArgList from the text argString on
parseArgs(argString, posArgs, namedArgs, buffer) ==
    parsedArg(argString, posArgs, namedArgs, buffer, ParseExpr(argString))

-----------------------------------------------------------------------------
(* Values the variables take while their specification is not running.      *)

NoParse == ParseResult(NilExpr, <<>>, "")
ParseOff ==
    /\ pIn = <<>> /\ pTree = NoParse /\ pText = <<>> /\ pAgain = NoParse
    /\ pPc = "off"
PipeOff ==
    /\ xText = <<>> /\ fArgs = <<>> /\ gArg = <<>> /\ bar = <<>>
    /\ xTree = NoParse /\ piped = NoParse /\ called = NoParse
    /\ chainPiped = NoParse /\ chainCalled = NoParse /\ qPc = "off"
UnitOff == uIn = <<>> /\ uOut = <<>> /\ uPc = "off"
FanOff == /\ fErrs = <<>> /\ fN = 0 /\ fRes = NilError /\ fPc = "off"
AppOff == /\ backends = <<>> /\ tldCache = [kind |-> "missing", m |-> <<>>]
TLDOff == /\ tTargets = <<>> /\ tRes = <<>> /\ tPc = "off"
ReqOff ==
    /\ pc = "off" /\ endpoint = "none" /\ reqTarget = <<>> /\ reqFormat = ""
    /\ selected = <<>> /\ calls = <<>> /\ ctxErr = FALSE /\ fanoutErrs = <<>>
    /\ fanInErr = NilError /\ early = FALSE /\ w = NoResponse
    /\ Metrics = ZeroMetrics /\ prom = ZeroProm

-----------------------------------------------------------------------------
(* SpecFanIn: errorsFanIn on every error vector of at most MaxErrs errors   *)
(* and every nBackends in 0..MaxFanBackends.                                *)

InitFanIn ==
    /\ fErrs \in SeqsUpTo(BackendErrors, MaxErrs)
    /\ fN \in 0..MaxFanBackends
    /\ fRes = NilError
    /\ fPc = "call"
    /\ AppOff /\ TLDOff /\ ReqOff /\ ParseOff /\ PipeOff /\ UnitOff

CallErrorsFanIn ==
    /\ fPc = "call"
    /\ fRes' = errorsFanIn(fErrs, fN)
    /\ fPc' = "done"
    /\ UNCHANGED <<fErrs, fN, appVars, tldVars, reqVars, cntVars, parserVars>>

NextFanIn == CallErrorsFanIn

SpecFanIn == InitFanIn /\ [][NextFanIn]_vars

\* the number of errors of errs that are not types.ErrNotFound
NonNotFound(errs) == Cardinality({i \in 1..Len(errs) : ~errs[i].notFound})

IsMixedFailure(err) ==
    /\ err.type = "errorString"
    /\ err.msg = "all backends failed with mixed errors"

C2_CountsAlone ==
    (fPc = "done" /\ Len(fErrs) # fN) =>
        /\ (Len(fErrs) = 0 \/ Len(fErrs) < fN) => fRes = NilError
        /\ Len(fErrs) > fN =>
              /\ fRes.type = "errorString"
              /\ ~IsNotFound(fRes)
              /\ fRes = MoreErrorsThanBackends

\* fewer errors than backends, none of them a NotFound, and still success
C2_Witness ==
    /\ fPc = "done" /\ fN = 3 /\ Len(fErrs) = 2
    /\ NonNotFound(fErrs) = 2
    /\ fRes = NilError

-----------------------------------------------------------------------------
(* SpecTLD: filterBackendByTopLevelDomain on bounded fleets, routing tables *)
(* and target lists.                                                        *)

AllBackends == 1..NumBackends

\* the fleets: the first k backends, in configuration order
Fleets == {[i \in 1..k |-> i] : k \in 0..NumBackends}

\* the target texts: "a.b", "a", "c.a.b", "" and ".a"
TargetTexts ==
    {<<"a", ".", "b">>, <<"a">>, <<"c", ".", "a", ".", "b">>, <<>>, <<".", "a">>}

\* the top-level domains the routing table may know
TLDNames == {<<"a">>, <<"c">>}

\* the backend lists of the routing table; a list may repeat a backend and
\* may name a backend that is no longer in the fleet
TLDLists == SeqsUpTo(AllBackends, 2)

TLDCaches ==
    {[kind |-> "missing", m |-> <<>>], [kind |-> "nilmap", m |-> <<>>]}
    \cup {[kind |-> "map", m |-> f] : f \in UNION {[D -> TLDLists] : D \in SUBSET TLDNames}}

InitTLD ==
    /\ backends \in Fleets
    /\ tldCache \in TLDCaches
    /\ tTargets \in SeqsUpTo(TargetTexts, MaxTargets)
    /\ tRes = <<>>
    /\ tPc = "call"
    /\ FanOff /\ ReqOff /\ ParseOff /\ PipeOff /\ UnitOff

CallFilterBackendByTopLevelDomain ==
    /\ tPc = "call"
    /\ tRes' = filterBackendByTopLevelDomain(tldCache, backends, tTargets)
    /\ tPc' = "done"
    /\ UNCHANGED <<tTargets, appVars, fanVars, reqVars, cntVars, parserVars>>

NextTLD == CallFilterBackendByTopLevelDomain

SpecTLD == InitTLD /\ [][NextTLD]_vars

\* the text of t before its first '.', all of t when it has none
PrefixBeforeFirstDot(t) ==
    LET dots == {i \in 1..Len(t) : t[i] = "."}
    IN  IF dots = {} THEN t
        ELSE SubSeq(t, 1, (CHOOSE i \in dots : \A j \in dots : i <= j) - 1)

\* the backends the routing table lists for the targets' top-level domains
ListedBackends ==
    IF tldCache.kind # "map" THEN {}
    ELSE UNION {Range(tldCache.m[PrefixBeforeFirstDot(tTargets[i])]) :
                  i \in {j \in 1..Len(tTargets) :
                            PrefixBeforeFirstDot(tTargets[j]) \in DOMAIN tldCache.m}}

\* C7: filterBackendByTopLevelDomain returns the backends the routing table
\* lists for the targets' top-level domains when that subset is non-empty,
\* and the entire fleet when the subset is empty or the routing table is
\* unavailable; it never returns an empty list when the fleet is non-empty.
C7_TLDFilter ==
    tPc = "done" =>
        /\ (tldCache.kind = "map" /\ ListedBackends # {}) =>
              /\ Range(tRes) = ListedBackends
              /\ Cardinality(ListedBackends) = Len(tRes)
        /\ ListedBackends = {} => tRes = backends
        /\ tldCache.kind # "map" => tRes = backends
        /\ backends # <<>> => tRes # <<>>

\* a routed request: the table lists one backend of a fleet of three for the
\* target's domain, and only that backend is returned
C7_Witness ==
    /\ tPc = "done"
    /\ Len(backends) = 3
    /\ tTargets = << <<"a", ".", "b">> >>
    /\ ListedBackends = {2}
    /\ tRes = <<2>>

-----------------------------------------------------------------------------
(* Spec: the find, render and info handlers, one request at a time.  A      *)
(* handler runs from its entry to the fan-out call in one step, blocks      *)
(* while the selected backends answer concurrently, and runs from the       *)
(* return of the fan-out to its own return in one step.                     *)

\* app.backends as configured
AppFleet == [i \in 1..NumBackends |-> i]

\* the routing table: top-level domain "a" is served by backends 1 and 2
AppTLDCache == [kind |-> "map", m |-> (<<"a">> :> <<1, 2>>)]

Init ==
    /\ backends = AppFleet
    /\ tldCache = AppTLDCache
    /\ pc = "idle" /\ endpoint = "none" /\ reqTarget = <<>> /\ reqFormat = ""
    /\ selected = <<>> /\ calls = <<>> /\ ctxErr = FALSE /\ fanoutErrs = <<>>
    /\ fanInErr = NilError /\ early = FALSE /\ w = NoResponse
    /\ Metrics = ZeroMetrics /\ prom = ZeroProm
    /\ FanOff /\ TLDOff /\ ParseOff /\ PipeOff /\ UnitOff

\* a handler can be entered: no request is running and the model's bound on
\* the number of requests is not reached
CanAccept == pc = "idle" /\ Metrics.Requests < MaxRequests

\* the pattern predicates of the backends, as the sets of backends that
\* accept the request's targets: all of them, all but one, or none
Matchings == {AllBackends, {}} \cup {AllBackends \ {b} : b \in AllBackends}

\* the handler's locals when it reaches the fan-out call:
\*   bs := app.filterBackendByTopLevelDomain([]string{q}); bs = backend.Filter(bs, ...)
BeginFanOut(h, q, f, matching) ==
    LET sel == Filter(filterBackendByTopLevelDomain(tldCache, backends, <<q>>), matching)
    IN  /\ endpoint' = h /\ reqTarget' = q /\ reqFormat' = f
        /\ selected' = sel
        /\ calls' = [b \in Range(sel) |-> CallPending]
        /\ ctxErr' = FALSE /\ fanoutErrs' = <<>> /\ fanInErr' = NilError
        /\ early' = FALSE /\ w' = NoResponse
        /\ pc' = "fanout"

\* the handler answers with http.Error before the fan-out and returns
ReturnEarly(h, q, f, text, code) ==
    /\ endpoint' = h /\ reqTarget' = q /\ reqFormat' = f
    /\ selected' = <<>> /\ calls' = <<>>
    /\ ctxErr' = FALSE /\ fanoutErrs' = <<>> /\ fanInErr' = NilError
    /\ early' = TRUE /\ w' = httpError(text, code)
    /\ pc' = "done"

\* findHandler, from its entry to backend.Finds
findHandlerStart ==
    /\ CanAccept
    /\ \E q \in ReqTargets, f \in ReqFormats, matching \in Matchings :
          BeginFanOut("find", q, f, matching)
    /\ Metrics' = [Metrics EXCEPT !.Requests = @ + 1, !.FindRequests = @ + 1]
    /\ prom' = [prom EXCEPT !.Requests = @ + 1]
    /\ UNCHANGED <<fanVars, appVars, tldVars, parserVars>>

\* renderHandler, from its entry to backend.Renders or to an early return.
\* fault: "form" (ParseForm fails), "from" / "until" (not an integer), "none"
renderHandlerStart ==
    /\ CanAccept
    /\ \E fault \in {"form", "from", "until", "none"}, q \in ReqTargets, f \in ReqFormats,
          matching \in Matchings :
          LET m1 == [Metrics EXCEPT !.Requests = @ + 1, !.RenderRequests = @ + 1]
              p1 == [prom EXCEPT !.Requests = @ + 1]
              mE == [m1 EXCEPT !.Errors = @ + 1]
              pE == IncResponses(p1, StatusBadRequest, "render")
          IN  IF fault = "form" THEN
                  /\ ReturnEarly("render", <<>>, "", "failed to parse arguments", StatusBadRequest)
                  /\ Metrics' = mE /\ prom' = pE
              ELSE IF fault = "from" THEN
                  /\ ReturnEarly("render", q, f, "from is not a integer", StatusBadRequest)
                  /\ Metrics' = mE /\ prom' = pE
              ELSE IF fault = "until" THEN
                  /\ ReturnEarly("render", q, f, "until is not a integer", StatusBadRequest)
                  /\ Metrics' = mE /\ prom' = pE
              ELSE IF q = <<>> THEN
                  /\ ReturnEarly("render", q, f, "empty target", StatusBadRequest)
                  /\ Metrics' = mE /\ prom' = pE
              ELSE
                  /\ BeginFanOut("render", q, f, matching)
                  /\ Metrics' = m1 /\ prom' = p1
    /\ UNCHANGED <<fanVars, appVars, tldVars, parserVars>>

\* infoHandler, from its entry to backend.Infos or to an early return
infoHandlerStart ==
    /\ CanAccept
    /\ \E fault \in {"form", "none"}, q \in ReqTargets, f \in ReqFormats,
          matching \in Matchings :
          LET m1 == [Metrics EXCEPT !.Requests = @ + 1, !.InfoRequests = @ + 1]
              p1 == [prom EXCEPT !.Requests = @ + 1]
              mE == [m1 EXCEPT !.Errors = @ + 1]
              pE == IncResponses(p1, StatusBadRequest, "info")
          IN  IF fault = "form" THEN
                  /\ ReturnEarly("info", <<>>, "", "failed to parse arguments", StatusBadRequest)
                  /\ Metrics' = mE /\ prom' = pE
              ELSE IF q = <<>> THEN
                  /\ ReturnEarly("info", q, f, "info: empty target", StatusBadRequest)
                  /\ Metrics' = mE /\ prom' = pE
              ELSE
                  /\ BeginFanOut("info", q, f, matching)
                  /\ Metrics' = m1 /\ prom' = p1
    /\ UNCHANGED <<fanVars, appVars, tldVars, parserVars>>

\* lbCheckHandler
lbCheckHandler ==
    /\ CanAccept
    /\ endpoint' = "lbcheck" /\ reqTarget' = <<>> /\ reqFormat' = ""
    /\ selected' = <<>> /\ calls' = <<>>
    /\ ctxErr' = FALSE /\ fanoutErrs' = <<>> /\ fanInErr' = NilError
    /\ early' = FALSE
    /\ w' = [status |-> StatusOK, contentType |-> contentTypeText, text |-> "Ok",
             data |-> {}, logCode |-> StatusOK]
    /\ pc' = "done"
    /\ Metrics' = [Metrics EXCEPT !.Requests = @ + 1, !.Responses = @ + 1]
    /\ prom' = IncResponses([prom EXCEPT !.Requests = @ + 1], StatusOK, "lbcheck")
    /\ UNCHANGED <<fanVars, appVars, tldVars, parserVars>>

\* ---- the fan-out: one concurrent call per selected backend, joined before
\* ---- the handler goes on

\* backend b answers
BackendReplies(b) ==
    /\ pc = "fanout" /\ b \in DOMAIN calls /\ calls[b].state = "pending"
    /\ calls' = [calls EXCEPT ![b] = CallReplied]
    /\ UNCHANGED <<pc, endpoint, reqTarget, reqFormat, selected, ctxErr, fanoutErrs,
                   fanInErr, early, w, cntVars, fanVars, appVars, tldVars, parserVars>>

\* the call to backend b fails with error e: a NotFound or another error of
\* the backend's own (an aborted call is DeadlineExpires)
BackendFails(b, e) ==
    /\ pc = "fanout" /\ b \in DOMAIN calls /\ calls[b].state = "pending"
    /\ calls' = [calls EXCEPT ![b] = CallFailed(e)]
    /\ UNCHANGED <<pc, endpoint, reqTarget, reqFormat, selected, ctxErr, fanoutErrs,
                   fanInErr, early, w, cntVars, fanVars, appVars, tldVars, parserVars>>

\* the Global timeout expires: every outstanding call is aborted; the
\* replies already gathered stay
DeadlineExpires ==
    /\ pc = "fanout" /\ ~ctxErr
    /\ ctxErr' = TRUE
    /\ calls' = [b \in DOMAIN calls |->
                    IF calls[b].state = "pending" THEN CallFailed(ErrTimeoutValue)
                    ELSE calls[b]]
    /\ UNCHANGED <<pc, endpoint, reqTarget, reqFormat, selected, fanoutErrs,
                   fanInErr, early, w, cntVars, fanVars, appVars, tldVars, parserVars>>

\* the fan-out has joined all its calls
FanOutReturned == pc = "fanout" /\ \A b \in DOMAIN calls : calls[b].state # "pending"

\* findHandler, from the return of backend.Finds to its own return.
\* encFails: the encoder returns an error; writeFails: w.Write does
findHandlerFinish ==
    /\ FanOutReturned /\ endpoint = "find"
    /\ \E encFails \in BOOLEAN, writeFails \in BOOLEAN :
          LET es   == gatherErrs(selected, calls)
              e    == errorsFanIn(es, Len(selected))
              data == gatherReplies(selected, calls)
              p1   == IncRequestCancel(prom, "find", ctxErr)
              p2   == IF IsNotFound(e) THEN [p1 EXCEPT !.FindNotFound = @ + 1] ELSE p1
              ct   == findContentType(reqFormat)
          IN  /\ fanoutErrs' = es /\ fanInErr' = e
              /\ IF e.type # "nil" /\ ~IsNotFound(e) THEN
                     /\ w' = httpError(e.msg, StatusInternalServerError)
                     /\ Metrics' = [Metrics EXCEPT !.Errors = @ + 1]
                     /\ prom' = IncResponses(p1, StatusInternalServerError, "find")
                 ELSE IF ct = "" \/ encFails THEN
                     /\ w' = httpError("error marshaling data", StatusInternalServerError)
                     /\ Metrics' = [Metrics EXCEPT !.Errors = @ + 1]
                     /\ prom' = IncResponses(p2, StatusInternalServerError, "find")
                 ELSE
                     /\ w' = writeBlob(ct, data, writeFails)
                     /\ Metrics' = [Metrics EXCEPT !.Responses = @ + 1]
                     /\ prom' = IncResponses(p2, StatusOK, "find")
    /\ pc' = "done"
    /\ UNCHANGED <<endpoint, reqTarget, reqFormat, selected, calls, ctxErr, early,
                   fanVars, appVars, tldVars, parserVars>>

\* renderHandler, from the return of backend.Renders to its own return.  The
\* cancellation counter is labelled "find" here too, as in the source.  The
\* data-point and mismatch counters fed from RenderStats belong to the
\* replica merger and are not modelled.
renderHandlerFinish ==
    /\ FanOutReturned /\ endpoint = "render"
    /\ \E encFails \in BOOLEAN, writeFails \in BOOLEAN :
          LET es   == gatherErrs(selected, calls)
              e    == errorsFanIn(es, Len(selected))
              data == gatherReplies(selected, calls)
              p1   == IncRequestCancel(prom, "find", ctxErr)
              ct   == findContentType(reqFormat)
          IN  /\ fanoutErrs' = es /\ fanInErr' = e
              /\ IF e.type # "nil" THEN
                     LET code == IF IsNotFound(e) THEN StatusNotFound
                                 ELSE StatusInternalServerError
                         msg  == IF IsNotFound(e) THEN "not found"
                                 ELSE "error fetching the data"
                     IN  /\ w' = httpError(msg, code)
                         /\ Metrics' = [Metrics EXCEPT !.Errors = @ + 1]
                         /\ prom' = IncResponses(p1, code, "render")
                 ELSE IF ct = "" \/ encFails THEN
                     /\ w' = httpError("error marshaling data", StatusInternalServerError)
                     /\ Metrics' = [Metrics EXCEPT !.Errors = @ + 1]
                     /\ prom' = IncResponses(p1, StatusInternalServerError, "render")
                 ELSE
                     /\ w' = writeBlob(ct, data, writeFails)
                     /\ Metrics' = [Metrics EXCEPT !.Responses = @ + 1]
                     /\ prom' = IncResponses(p1, StatusOK, "render")
    /\ pc' = "done"
    /\ UNCHANGED <<endpoint, reqTarget, reqFormat, selected, calls, ctxErr, early,
                   fanVars, appVars, tldVars, parserVars>>

\* infoHandler, from the return of backend.Infos to its own return
infoHandlerFinish ==
    /\ FanOutReturned /\ endpoint = "info"
    /\ \E encFails \in BOOLEAN, writeFails \in BOOLEAN :
          LET es   == gatherErrs(selected, calls)
              e    == errorsFanIn(es, Len(selected))
              data == gatherReplies(selected, calls)
              ct   == infoContentType(reqFormat)
          IN  /\ fanoutErrs' = es /\ fanInErr' = e
              /\ IF IsNotFound(e) THEN
                     /\ w' = httpError("info: not found", StatusNotFound)
                     /\ UNCHANGED cntVars
                 ELSE IF e.type # "nil" THEN
                     /\ w' = httpError("info: error processing request",
                                       StatusInternalServerError)
                     /\ Metrics' = [Metrics EXCEPT !.Errors = @ + 1]
                     /\ prom' = IncResponses(prom, StatusInternalServerError, "info")
                 ELSE IF ct = "" \/ encFails THEN
                     /\ w' = httpError("error marshaling data", StatusInternalServerError)
                     /\ Metrics' = [Metrics EXCEPT !.Errors = @ + 1]
                     /\ prom' = IncResponses(prom, StatusInternalServerError, "info")
                 ELSE
                     /\ w' = writeBlob(ct, data, writeFails)
                     /\ Metrics' = [Metrics EXCEPT !.Responses = @ + 1]
                     /\ prom' = IncResponses(prom, StatusOK, "info")
    /\ pc' = "done"
    /\ UNCHANGED <<endpoint, reqTarget, reqFormat, selected, calls, ctxErr, early,
                   fanVars, appVars, tldVars, parserVars>>

\* the handler has returned: its locals and the request are gone, the
\* counters stay
HandlerReturns ==
    /\ pc = "done"
    /\ pc' = "idle" /\ endpoint' = "none" /\ reqTarget' = <<>> /\ reqFormat' = ""
    /\ selected' = <<>> /\ calls' = <<>> /\ ctxErr' = FALSE /\ fanoutErrs' = <<>>
    /\ fanInErr' = NilError /\ early' = FALSE /\ w' = NoResponse
    /\ UNCHANGED <<cntVars, fanVars, appVars, tldVars, parserVars>>

Next ==
    \/ findHandlerStart
    \/ renderHandlerStart
    \/ infoHandlerStart
    \/ lbCheckHandler
    \/ \E b \in AllBackends : BackendReplies(b)
    \/ \E b \in AllBackends, e \in {ErrNotFoundValue, ErrOtherValue} : BackendFails(b, e)
    \/ DeadlineExpires
    \/ findHandlerFinish
    \/ renderHandlerFinish
    \/ infoHandlerFinish
    \/ HandlerReturns

Spec == Init /\ [][Next]_vars

\* ---- what the claims about the handlers speak of

\* the request went through the fan-out and the handler has returned
Served == pc = "done" /\ ~early /\ endpoint \in Handlers

\* the reconciler's verdict
ReconciledNotFound == fanInErr.type = "ErrNotFound"
ReconciledOtherError == fanInErr.type = "errorString"

\* the formats each endpoint can encode
KnownFormats(h) ==
    IF h = "info" THEN {"", "json", "protobuf", "protobuf3"}
    ELSE {"", "pickle", "json", "protobuf", "protobuf3"}

\* the selected backends that answered
Succeeded == {b \in DOMAIN calls : calls[b].state = "ok"}

\* the response for data that could not be encoded
MarshalFailure ==
    /\ w.status = StatusInternalServerError
    /\ w.text = "error marshaling data"

\* the total of the cancellation counter over its labels
TotalCancel(p) ==
    p.RequestCancel["find"] + p.RequestCancel["render"] + p.RequestCancel["info"]

C6_AsStated ==
    [][(pc = "fanout" /\ pc' = "done" /\ ctxErr /\ endpoint \in Handlers) =>
          /\ TotalCancel(prom') = TotalCancel(prom) + 1
          /\ Succeeded # {} => fanInErr' = NilError]_vars

\* the handler finishes a find, render or info request in this step
FinishesRequest == pc # "done" /\ pc' = "done" /\ endpoint' \in Handlers

\* C21 as stated: every find, render or info request that the handler
\* finishes writes exactly one HTTP status and is counted exactly once,
\* either in the Responses counter (status 200) or in the Errors counter (any
\* 4xx/5xx status), and the Prometheus Responses counter is incremented
\* exactly once, with the status code that was sent.
C21_AsStated ==
    [][FinishesRequest =>
          /\ w'.status \in HTTPCodes
          /\ w'.status = StatusOK =>
                /\ Metrics'.Responses = Metrics.Responses + 1
                /\ Metrics'.Errors = Metrics.Errors
          /\ w'.status >= 400 =>
                /\ Metrics'.Errors = Metrics.Errors + 1
                /\ Metrics'.Responses = Metrics.Responses
          /\ prom'.Responses =
                [prom.Responses EXCEPT ![<<w'.status, endpoint'>>] = @ + 1]]_vars

-----------------------------------------------------------------------------
(* SpecParse: ParseExpr applied to a text, ToString applied to the parsed   *)
(* tree, ParseExpr applied to that.                                         *)

\* a  a.b  c.d
NameTexts ==
    {<<"a">>,
     <<"a", ".", "b">>,
     <<"c", ".", "d">>}

\* 1  2  2.5  1.0  -1  1e6
ConstTexts ==
    {<<"1">>,
     <<"2">>,
     <<"2", ".", "5">>,
     <<"1", ".", "0">>,
     <<"-", "1">>,
     <<"1", "e", "6">>}

\* 'x'  "x"  "'"  '\'
StringTexts ==
    {<<"'", "x", "'">>,
     <<"\"", "x", "\"">>,
     <<"\"", "'", "\"">>,
     <<"'", "\\", "'">>}

\* true  False
BoolTexts ==
    {<<"t", "r", "u", "e">>,
     <<"F", "a", "l", "s", "e">>}

AtomTexts == NameTexts \cup ConstTexts \cup StringTexts \cup BoolTexts

\* k=1  k=a  k='x'  key=true
NamedTexts ==
    {<<"k", "=", "1">>,
     <<"k", "=", "a">>,
     <<"k", "=", "'", "x", "'">>,
     <<"k", "e", "y", "=", "t", "r", "u", "e">>}

\* g(a)  g(a, 1)  g (1.0)  "x"|g()
InnerCallTexts ==
    {<<"g", "(", "a", ")">>,
     <<"g", "(", "a", ",", " ", "1", ")">>,
     <<"g", " ", "(", "1", ".", "0", ")">>,
     <<"\"", "x", "\"", "|", "g", "(", ")">>}

EntryTexts == AtomTexts \cup NamedTexts \cup InnerCallTexts

\* the separators between entries: a comma, a comma and a space
Separators ==
    {<<",">>,
     <<",", " ">>}

\* the texts joined by the separator
RECURSIVE Join(_, _)
Join(texts, sep) ==
    IF texts = <<>> THEN <<>>
    ELSE IF Len(texts) = 1 THEN texts[1]
    ELSE texts[1] \o sep \o Join(Tail(texts), sep)

ArgListTexts ==
    {Join(es, sep) : es \in SeqsUpTo(EntryTexts, MaxArgs), sep \in Separators}

\* name(args)
CallText(name, args) == name \o <<"(">> \o args \o <<")">>

SumName == <<"s", "u", "m">>
ScaleName == <<"s", "c", "a", "l", "e">>
GName == <<"g">>

CallTexts == {CallText(SumName, al) : al \in ArgListTexts}

\* the pipe operator as written
Bars ==
    {<<"|">>,
     <<" ", "|", " ">>}

\* f()  f(b)  f(k=1, b)
CalleeTexts ==
    {<<"f", "(", ")">>,
     <<"f", "(", "b", ")">>,
     <<"f", "(", "k", "=", "1", ",", " ", "b", ")">>}

\* nothing, or a second pipe |g(c)
SecondPipeTexts ==
    {<<>>,
     <<"|", "g", "(", "c", ")">>}

PipeLeftTexts == AtomTexts \cup InnerCallTexts

PipeTexts ==
    {x \o b \o c \o r : x \in PipeLeftTexts, b \in Bars, c \in CalleeTexts,
                         r \in SecondPipeTexts}

\* texts ParseExpr rejects: the empty text, a space, -foo, 'x, f(a, a|b, f(a b), f(k=g(a)), a{b, f(a,)
BrokenTexts ==
    {<<>>,
     <<" ">>,
     <<"-", "f", "o", "o">>,
     <<"'", "x">>,
     <<"f", "(", "a">>,
     <<"a", "|", "b">>,
     <<"f", "(", "a", " ", "b", ")">>,
     <<"f", "(", "k", "=", "g", "(", "a", ")", ")">>,
     <<"a", "{", "b">>,
     <<"f", "(", "a", ",", ")">>}

ParseInputs == AtomTexts \cup CallTexts \cup PipeTexts \cup BrokenTexts

InitParse ==
    /\ pIn \in ParseInputs
    /\ pTree = NoParse /\ pText = <<>> /\ pAgain = NoParse
    /\ pPc = "input"
    /\ FanOff /\ AppOff /\ TLDOff /\ ReqOff /\ PipeOff /\ UnitOff

\* exp, e, err := ParseExpr(e)
CallParseExpr ==
    /\ pPc = "input"
    /\ pTree' = ParseExpr(pIn)
    /\ pPc' = "parsed"
    /\ UNCHANGED <<pIn, pText, pAgain, pipeVars, fanVars, appVars, tldVars,
                   reqVars, cntVars, unitVars>>

\* exp.ToString(), of an accepted expression
CallToString ==
    /\ pPc = "parsed"
    /\ pTree.err = ""
    /\ pText' = ExprToString(pTree.exp)
    /\ pPc' = "printed"
    /\ UNCHANGED <<pIn, pTree, pAgain, pipeVars, fanVars, appVars, tldVars,
                   reqVars, cntVars, unitVars>>

\* ParseExpr(exp.ToString())
CallParseExprAgain ==
    /\ pPc = "printed"
    /\ pAgain' = ParseExpr(pText)
    /\ pPc' = "reparsed"
    /\ UNCHANGED <<pIn, pTree, pText, pipeVars, fanVars, appVars, tldVars,
                   reqVars, cntVars, unitVars>>

NextParse == CallParseExpr \/ CallToString \/ CallParseExprAgain

SpecParse == InitParse /\ [][NextParse]_vars

\* the tree without the rawArgString of its Func nodes: node types, targets,
\* values, string values, positional and named arguments
RECURSIVE StripArgString(_)
StripArgString(x) ==
    [x EXCEPT !.argString = <<>>,
              !.args = [i \in 1..Len(x.args) |-> StripArgString(x.args[i])]]

StructurallyEqual(x, y) == StripArgString(x) = StripArgString(y)

\* C8: for every expression e that ParseExpr accepts, ToString() of the
\* parsed tree is itself accepted by ParseExpr and parses to a tree
\* structurally equal to the first one (same node types, targets, values,
\* string values, positional and named arguments).
C8_AsStated ==
    pPc = "reparsed" =>
        /\ pAgain.err = ""
        /\ StructurallyEqual(pAgain.exp, pTree.exp)

SumTwoNames == <<"s", "u", "m", "(", "a", ".", "b", ",", " ", "c", ".", "d", ")">>

\* C10 as the specification states it: Parse("sum(a.b, c.d)") is Func sum with
\* positional [Name a.b, Name c.d] and rawArgString exactly "a.b,c.d", the
\* entries joined by ',' alone.
C10_AsStated ==
    (pPc # "input" /\ pIn = SumTwoNames) =>
        /\ pTree.err = ""
        /\ pTree.exp.etype = EtFunc /\ pTree.exp.target = SumName
        /\ pTree.exp.args = <<MkExpr(EtName, <<"a", ".", "b">>, ZeroVal, <<>>),
                              MkExpr(EtName, <<"c", ".", "d">>, ZeroVal, <<>>)>>
        /\ pTree.exp.argString = <<"a", ".", "b", ",", "c", ".", "d">>

\* C10, amended: a call whose two arguments are separated by a comma followed
\* by a space keeps, for each entry that is not a function call, the text
\* consumed for it, the space before the second entry included:
\* Parse("sum(a.b, c.d)") is Func sum with positional [Name a.b, Name c.d]
\* and rawArgString exactly "a.b, c.d".
C10_RawArgString ==
    /\ (pPc # "input" /\ pIn = SumTwoNames) =>
            /\ pTree.err = "" /\ pTree.e = <<>>
            /\ pTree.exp.etype = EtFunc /\ pTree.exp.target = SumName
            /\ pTree.exp.args = <<MkExpr(EtName, <<"a", ".", "b">>, ZeroVal, <<>>),
                                  MkExpr(EtName, <<"c", ".", "d">>, ZeroVal, <<>>)>>
            /\ pTree.exp.namedArgs = <<>>
            /\ pTree.exp.argString = <<"a", ".", "b", ",", " ", "c", ".", "d">>
    /\ \A x, y \in AtomTexts :
            (pPc # "input" /\ pIn = CallText(SumName, x \o <<",", " ">> \o y)) =>
                /\ pTree.err = ""
                /\ Len(pTree.exp.args) = 2
                /\ pTree.exp.argString = x \o <<",", " ">> \o y

C10_Witness ==
    /\ pPc = "parsed" /\ pIn = SumTwoNames
    /\ pTree.exp.argString = <<"a", ".", "b", ",", " ", "c", ".", "d">>

-----------------------------------------------------------------------------
(* SpecPipe: "X | F(args)" and "F(X,args)" handed to ParseExpr, and the     *)
(* same with a second pipe into G.                                          *)

\* the entries of F's argument list:  2  b  (space)b  k=1  g(b)
PipeEntryTexts ==
    {<<"2">>,
     <<"b">>,
     <<" ", "b">>,
     <<"k", "=", "1">>,
     <<"g", "(", "b", ")">>}

\* G's argument: none, or b
SecondArgTexts ==
    {<<>>,
     <<"b">>}

PipeArgTexts == {Join(es, <<",">>) : es \in SeqsUpTo(PipeEntryTexts, MaxArgs)}

\* x,args or x alone
Prepend(x, args) == IF args = <<>> THEN x ELSE x \o <<",">> \o args

\* "X | F(args)"
PipedText == xText \o bar \o CallText(ScaleName, fArgs)
\* "F(X,args)"
CalledText == CallText(ScaleName, Prepend(xText, fArgs))
\* "X | F(args) | G(b)"
ChainPipedText == PipedText \o bar \o CallText(GName, gArg)
\* "G(F(X,args),b)"
ChainCalledText == CallText(GName, Prepend(CalledText, gArg))

InitPipe ==
    /\ xText \in PipeLeftTexts
    /\ fArgs \in PipeArgTexts
    /\ gArg \in SecondArgTexts
    /\ bar \in Bars
    /\ xTree = NoParse /\ piped = NoParse /\ called = NoParse
    /\ chainPiped = NoParse /\ chainCalled = NoParse
    /\ qPc = "x"
    /\ FanOff /\ AppOff /\ TLDOff /\ ReqOff /\ ParseOff /\ UnitOff

ParseLeft ==
    /\ qPc = "x"
    /\ xTree' = ParseExpr(xText)
    /\ qPc' = "piped"
    /\ UNCHANGED <<xText, fArgs, gArg, bar, piped, called, chainPiped, chainCalled,
                   parseVars, fanVars, appVars, tldVars, reqVars, cntVars, unitVars>>

ParsePiped ==
    /\ qPc = "piped"
    /\ piped' = ParseExpr(PipedText)
    /\ qPc' = "called"
    /\ UNCHANGED <<xText, fArgs, gArg, bar, xTree, called, chainPiped, chainCalled,
                   parseVars, fanVars, appVars, tldVars, reqVars, cntVars, unitVars>>

ParseCalled ==
    /\ qPc = "called"
    /\ called' = ParseExpr(CalledText)
    /\ qPc' = "chainPiped"
    /\ UNCHANGED <<xText, fArgs, gArg, bar, xTree, piped, chainPiped, chainCalled,
                   parseVars, fanVars, appVars, tldVars, reqVars, cntVars, unitVars>>

ParseChainPiped ==
    /\ qPc = "chainPiped"
    /\ chainPiped' = ParseExpr(ChainPipedText)
    /\ qPc' = "chainCalled"
    /\ UNCHANGED <<xText, fArgs, gArg, bar, xTree, piped, called, chainCalled,
                   parseVars, fanVars, appVars, tldVars, reqVars, cntVars, unitVars>>

ParseChainCalled ==
    /\ qPc = "chainCalled"
    /\ chainCalled' = ParseExpr(ChainCalledText)
    /\ qPc' = "done"
    /\ UNCHANGED <<xText, fArgs, gArg, bar, xTree, piped, called, chainPiped,
                   parseVars, fanVars, appVars, tldVars, reqVars, cntVars, unitVars>>

NextPipe ==
    \/ ParseLeft
    \/ ParsePiped
    \/ ParseCalled
    \/ ParseChainPiped
    \/ ParseChainCalled

SpecPipe == InitPipe /\ [][NextPipe]_vars

\* X's canonical text is X as written, or X is a function call
WrittenCanonically == xTree.exp.etype = EtFunc \/ ExprToString(xTree.exp) = xText

AllAccepted ==
    /\ xTree.err = "" /\ xTree.e = <<>>
    /\ piped.err = "" /\ piped.e = <<>>
    /\ called.err = "" /\ called.e = <<>>
    /\ chainPiped.err = "" /\ chainPiped.e = <<>>
    /\ chainCalled.err = "" /\ chainCalled.e = <<>>

\* C9 as the specification states it: for every expression X and function
\* call F(args), parsing "X | F(args)" yields a tree equal to parsing
\* "F(X,args)", the rawArgString included, and "X | F(a) | G(b)" equals
\* "G(F(X,a),b)".
C9_AsStated ==
    qPc = "done" =>
        /\ piped.err = "" /\ called.err = ""
        /\ piped.exp = called.exp
        /\ chainPiped.err = "" /\ chainCalled.err = ""
        /\ chainPiped.exp = chainCalled.exp

\* C9, amended: for every expression X and function call F(args), parsing
\* "X | F(args)" and parsing "F(X,args)" are both accepted and yield trees
\* with the same node types, targets, values, string values, positional and
\* named arguments; the rawArgString of the piped form is X's canonical text,
\* a comma and F's own rawArgString, and it is the rawArgString of the call
\* form when X is a function call or is written as its canonical text; the
\* same holds of "X | F(a) | G(b)" and "G(F(X,a),b)"; "a | scale(2)" gives
\* rawArgString "a,2".
C9_PipeEquivalence ==
    qPc = "done" =>
        /\ AllAccepted
        /\ StructurallyEqual(piped.exp, called.exp)
        /\ StructurallyEqual(chainPiped.exp, chainCalled.exp)
        /\ piped.exp.args[1] = xTree.exp
        /\ piped.exp.argString =
               Prepend(ExprToString(xTree.exp),
                       ParseExpr(CallText(ScaleName, fArgs)).exp.argString)
        /\ chainPiped.exp.args[1] = piped.exp
        /\ chainPiped.exp.argString = Prepend(ExprToString(piped.exp), gArg)
        /\ WrittenCanonically =>
               /\ piped.exp = called.exp
               /\ chainPiped.exp = chainCalled.exp
        /\ (xText = <<"a">> /\ fArgs = <<"2">>) =>
               /\ piped.exp.argString = <<"a", ",", "2">>
               /\ called.exp.argString = <<"a", ",", "2">>

C9_Witness ==
    /\ qPc = "done"
    /\ xText = <<"a">> /\ fArgs = <<"2">> /\ bar = <<" ", "|", " ">>
    /\ piped.err = ""
    /\ piped.exp.target = ScaleName
    /\ piped.exp.argString = <<"a", ",", "2">>
    /\ piped.exp = called.exp

-----------------------------------------------------------------------------
(* SpecName: parseName applied to a text.                                   *)

\* longest text handed to parseName in SpecName
MaxNameLen == 4

\* a name character, the characters parseName's switch knows, and one it
\* does not
NameAlphabet == {"a", ",", " ", "\t", "\n", "{", "}", "[", "]", "("}

NameInputs == SeqsUpTo(NameAlphabet, MaxNameLen)

InitName ==
    /\ uIn \in NameInputs
    /\ uOut = <<>>
    /\ uPc = "call"
    /\ FanOff /\ AppOff /\ TLDOff /\ ReqOff /\ ParseOff /\ PipeOff

\* name, tail, err := parseName(s); run is the loop's state where it ended
CallParseName ==
    /\ uPc = "call"
    /\ uOut' = [run |-> NameRun(uIn, 0, 0, 0), res |-> parseName(uIn)]
    /\ uPc' = "done"
    /\ UNCHANGED <<uIn, parseVars, pipeVars, fanVars, appVars, tldVars, reqVars,
                   cntVars>>

NextName == CallParseName

SpecName == InitName /\ [][NextName]_vars

\* how many of the first k characters of the text are c
RECURSIVE CountChar(_, _, _)
CountChar(str, k, c) ==
    IF k = 0 THEN 0
    ELSE CountChar(str, k - 1, c) + (IF str[k] = c THEN 1 ELSE 0)

\* the depths after the first k characters, by counting
BraceDepth(str, k) == CountChar(str, k, "{") - CountChar(str, k, "}")
BracketDepth(str, k) == CountChar(str, k, "[") - CountChar(str, k, "]")

SpaceChars == {" ", "\t", "\n"}
BoundaryChars == {","} \cup SpaceChars

\* the positions (1-based) of the text the loop of parseName looked at
MetPositions == {j \in 1..Len(uIn) : j <= uOut.run.i + 1}

\* the loop stopped at position j
StoppedAt(j) == uOut.run.i = j - 1

\* the name ends before position j without error
EndsNameAt(j) ==
    uOut.res = [name |-> Take(uIn, j - 1), tail |-> Drop(uIn, j - 1), err |-> ""]

\* parseName failed at position j with the error
FailsAt(j, err) ==
    StoppedAt(j) /\ uOut.res = [name |-> uIn, tail |-> <<>>, err |-> err]

\* C11 as the specification states it: a comma, space, tab or newline met at
\* brace-depth 0 and bracket-depth 0 ends the name without error; each of
\* those characters met inside {...} or inside [...] makes parseName fail with
\* the error of that construct.
C11_AsStated ==
    uPc = "done" =>
        \A j \in MetPositions :
            uIn[j] \in BoundaryChars =>
                IF BraceDepth(uIn, j - 1) = 0 /\ BracketDepth(uIn, j - 1) = 0
                THEN EndsNameAt(j)
                ELSE /\ StoppedAt(j)
                     /\ uOut.res.err \in {"ErrSpacesInBraces", "ErrSpacesInBrackets",
                                          "ErrCommaInBrackets"}

\* C11, amended: a comma, space, tab or newline met at brace-depth 0 and
\* bracket-depth 0 ends the name without error, the name being the text
\* before it and the tail the rest; a space, tab or newline met inside {...}
\* fails with spaces-in-braces, and met inside [...] outside braces with
\* spaces-in-brackets; a comma met inside [...] fails with
\* comma-in-brackets; a comma met inside {...} and outside [...] is a
\* character of the name.
C11_NameBoundary ==
    uPc = "done" =>
        \A j \in MetPositions :
            LET braces   == BraceDepth(uIn, j - 1)
                brackets == BracketDepth(uIn, j - 1)
            IN  /\ (uIn[j] \in BoundaryChars /\ braces = 0 /\ brackets = 0) =>
                       EndsNameAt(j)
                /\ (uIn[j] \in SpaceChars /\ braces > 0) =>
                       FailsAt(j, "ErrSpacesInBraces")
                /\ (uIn[j] \in SpaceChars /\ braces = 0 /\ brackets > 0) =>
                       FailsAt(j, "ErrSpacesInBrackets")
                /\ (uIn[j] = "," /\ brackets > 0) =>
                       FailsAt(j, "ErrCommaInBrackets")
                /\ (uIn[j] = "," /\ brackets = 0 /\ braces > 0) =>
                       /\ ~StoppedAt(j)
                       /\ uOut.res.err = "" => Len(uOut.res.name) >= j

C11_Witness ==
    /\ uPc = "done"
    /\ uIn = <<"a", ",", "[", " ">>
    /\ uOut.res = [name |-> <<"a">>, tail |-> <<",", "[", " ">>, err |-> ""]

\* parseName accepted the text, or a prefix of it, as the name
NameAccepted == uPc = "done" /\ uOut.res.err = ""

\* the positions of the accepted name inside braces / inside brackets
InBraces(j) == BraceDepth(uOut.res.name, j - 1) > 0
InBrackets(j) == BracketDepth(uOut.res.name, j - 1) > 0

\* C12 as the specification states it: every accepted name has brace nesting
\* depth at most 1, no '[' and no space inside braces, and every '{' closed;
\* a missing closer is the missing-brace error.
C12_AsStated ==
    /\ NameAccepted =>
            LET name == uOut.res.name
            IN  /\ \A k \in 0..Len(name) :
                       BraceDepth(name, k) >= 0 /\ BraceDepth(name, k) <= 1
                /\ BraceDepth(name, Len(name)) = 0
                /\ \A j \in 1..Len(name) :
                       InBraces(j) => name[j] \notin SpaceChars \cup {"["}
    /\ (uPc = "done" /\ uOut.run.err = "" /\ BraceDepth(uIn, uOut.run.i) > 0) =>
            uOut.res = [name |-> uIn, tail |-> <<>>, err |-> "ErrMissingBrace"]

\* C12, amended: in every name parseName accepts, every '{' has its closing
\* '}' and every '}' its opening '{', and no space, tab or newline occurs
\* inside braces; a text the loop leaves with a brace open fails with
\* missing-brace. Braces may nest to any depth and a '[...]' may stand
\* inside braces: "{{}}" and "{[]}" are accepted whole.
C12_ValueList ==
    /\ NameAccepted =>
            LET name == uOut.res.name
            IN  /\ \A k \in 0..Len(name) : BraceDepth(name, k) >= 0
                /\ BraceDepth(name, Len(name)) = 0
                /\ \A j \in 1..Len(name) : InBraces(j) => name[j] \notin SpaceChars
    /\ (uPc = "done" /\ uOut.run.err = "" /\ BraceDepth(uIn, uOut.run.i) > 0) =>
            uOut.res = [name |-> uIn, tail |-> <<>>, err |-> "ErrMissingBrace"]
    /\ (uPc = "done" /\ uIn \in {<<"{", "{", "}", "}">>, <<"{", "[", "]", "}">>}) =>
            uOut.res = [name |-> uIn, tail |-> <<>>, err |-> ""]

C12_Witness ==
    /\ NameAccepted
    /\ uIn = <<"{", "{", "}", "}">>
    /\ uOut.res.name = uIn
    /\ BraceDepth(uIn, 2) = 2

-----------------------------------------------------------------------------
(* SpecLead: parseExprWithoutPipe applied to a text led by a sign or a      *)
(* digit.                                                                   *)

\* longest text handed to parseExprWithoutPipe in SpecLead
MaxLeadLen == 4

LeadChars == {"-", "+", "1"}
LeadAlphabet == {"-", "+", "1", ".", "e", "f", ",", "("}

LeadInputs ==
    {<<c>> \o rest : c \in LeadChars, rest \in SeqsUpTo(LeadAlphabet, MaxLeadLen - 1)}

InitLead ==
    /\ uIn \in LeadInputs
    /\ uOut = <<>>
    /\ uPc = "call"
    /\ FanOff /\ AppOff /\ TLDOff /\ ReqOff /\ ParseOff /\ PipeOff

\* exp, e, err := parseExprWithoutPipe(e)
CallParseExprWithoutPipe ==
    /\ uPc = "call"
    /\ uOut' = parseExprWithoutPipe(uIn)
    /\ uPc' = "done"
    /\ UNCHANGED <<uIn, parseVars, pipeVars, fanVars, appVars, tldVars, reqVars,
                   cntVars>>

NextLead == CallParseExprWithoutPipe

SpecLead == InitLead /\ [][NextLead]_vars

\* the numeric run: the longest prefix made of digits, '.', '+', '-', 'e', 'E'
NumericRun(str) == ConstRun(str, 0)

\* the numeric run is immediately followed by a letter
FollowedByLetter(str) ==
    NumericRun(str) < Len(str) /\ IsLetter(str[NumericRun(str) + 1])

\* the text is a legal name: made of name characters only
LegalName(str) == str # <<>> /\ \A i \in 1..Len(str) : IsNameChar(str[i])

\* C14: when an expression starts with a digit or a sign, parseExprWithoutPipe
\* returns a Const if the numeric run is not immediately followed by a
\* letter, and otherwise parses the sign/digits as the start of a name; no
\* sign- or digit-led text that is a legal name is turned into an error.
C14_AsStated ==
    uPc = "done" =>
        /\ ~FollowedByLetter(uIn) => uOut.exp.etype = EtConst
        /\ (FollowedByLetter(uIn) /\ LegalName(uIn)) =>
               /\ uOut.err = ""
               /\ uOut.exp.etype \in {EtName, EtFunc}
               /\ uOut.exp.target = uIn
        /\ LegalName(uIn) => uOut.err = ""

-----------------------------------------------------------------------------
(* The metric-request extractor: expr.Metrics and the argument accessors    *)
(* it uses.                                                                 *)

\* int32(x).  Every duration and index of the model is far inside the 32-bit
\* range (at most a few weeks of seconds), where the conversion and the
\* int32 arithmetic change nothing.
Int32(x) == x

RECURSIVE Pow10(_)
Pow10(n) == IF n = 0 THEN 1 ELSE 10 * Pow10(n - 1)

\* int(v) of a float64: truncation towards zero
IntOfVal(v) ==
    LET mag == IF v.exp >= 0 THEN v.mant * Pow10(v.exp)
               ELSE v.mant \div Pow10(0 - v.exp)
    IN  IF v.neg THEN 0 - mag ELSE mag

\* MetricRequest{Metric: metric, From: from, Until: until}
MetricRequest(metric, from, until) ==
    [Metric |-> metric, From |-> from, Until |-> until]

\* the value and error an accessor returns
ArgResult(v, err) == [v |-> v, err |-> err]

\* the length of the run of digits of str from index i (0-based) on
RECURSIVE DigitRun(_, _)
DigitRun(str, i) ==
    IF i < Len(str) /\ isDigit(str[i + 1]) THEN DigitRun(str, i + 1) ELSE i

\* the seconds of one unit of a duration string
IntervalUnits ==
    (<<"s">> :> 1) @@ (<<"h">> :> 3600) @@ (<<"d">> :> 86400)

\* IntervalString(s, defaultSign): a duration such as 30s, 1h, 7d with an
\* optional sign; the default sign applies when none is written
IntervalString(s, defaultSign) ==
    LET signed == s # <<>> /\ s[1] \in {"-", "+"}
        sign   == IF ~signed THEN defaultSign ELSE IF s[1] = "-" THEN 0 - 1 ELSE 1
        body   == IF signed THEN Tail(s) ELSE s
        nd     == DigitRun(body, 0)
        digits == Take(body, nd)
        unit   == Drop(body, nd)
    IN  IF nd = 0 \/ unit \notin DOMAIN IntervalUnits
        THEN ArgResult(0, "ErrUnknownTimeUnits")
        ELSE ArgResult(Int32(sign * NatOf(digits) * IntervalUnits[unit]), "")

\* e.doGetIntArg(): the integer of a Const node, bad-type for another node
doGetIntArg(a) ==
    IF a.etype # EtConst THEN ArgResult(0, "ErrBadType")
    ELSE ArgResult(IntOfVal(a.val), "")

\* e.GetIntervalArg(n, defaultSign); seconds is IntervalString's result
intervalArg(seconds) ==
    IF seconds.err # "" THEN ArgResult(0, "ErrBadType") ELSE seconds

GetIntervalArg(e, n, defaultSign) ==
    IF Len(e.args) <= n THEN ArgResult(0, "ErrMissingArgument")
    ELSE IF e.args[n + 1].etype # EtString THEN ArgResult(0, "ErrBadType")
    ELSE intervalArg(IntervalString(e.args[n + 1].valStr, defaultSign))

\* e.GetIntArg(n)
GetIntArg(e, n) ==
    IF Len(e.args) <= n THEN ArgResult(0, "ErrMissingArgument")
    ELSE doGetIntArg(e.args[n + 1])

TimeShiftName == <<"t", "i", "m", "e", "S", "h", "i", "f", "t">>
TimeStackName == <<"t", "i", "m", "e", "S", "t", "a", "c", "k">>
HoltWintersNames ==
    {<<"h", "o", "l", "t", "W", "i", "n", "t", "e", "r", "s", "F", "o", "r", "e", "c", "a", "s", "t">>,
     <<"h", "o", "l", "t", "W", "i", "n", "t", "e", "r", "s", "C", "o", "n", "f", "i", "d", "e", "n", "c", "e", "B", "a", "n", "d", "s">>,
     <<"h", "o", "l", "t", "W", "i", "n", "t", "e", "r", "s", "A", "b", "e", "r", "r", "a", "t", "i", "o", "n">>}
MovingNames ==
    {<<"m", "o", "v", "i", "n", "g", "A", "v", "e", "r", "a", "g", "e">>,
     <<"m", "o", "v", "i", "n", "g", "M", "e", "d", "i", "a", "n">>,
     <<"m", "o", "v", "i", "n", "g", "M", "i", "n">>,
     <<"m", "o", "v", "i", "n", "g", "M", "a", "x">>,
     <<"m", "o", "v", "i", "n", "g", "S", "u", "m">>}

\* what a call of Metrics does: it returns the slice r, or it stops with a
\* runtime panic
Returned(r) == [panic |-> FALSE, r |-> r]
Panicked == [panic |-> TRUE, r |-> <<>>]

\* the timeShift case moving the start of the window only
timeShiftFromOnly(r, offs) ==
    IF offs.err # "" THEN Returned(<<>>)
    ELSE Returned([i \in 1..Len(r) |->
                     MetricRequest(r[i].Metric, Int32(r[i].From + offs.v), r[i].Until)])

\* case "timeShift"
timeShiftOf(r, offs) ==
    IF offs.err # "" THEN Returned(<<>>)
    ELSE Returned([i \in 1..Len(r) |->
                     MetricRequest(r[i].Metric,
                                   Int32(r[i].From + offs.v),
                                   Int32(r[i].Until + offs.v))])

\* the inner loop running up to the index end itself
RECURSIVE stackOfInclusive(_, _, _, _)
stackOfInclusive(v, offs, i, end) ==
    IF i > end THEN <<>>
    ELSE <<MetricRequest(v.Metric,
                         Int32(v.From + Int32(i * offs)),
                         Int32(v.Until + Int32(i * offs)))>>
         \o stackOfInclusive(v, offs, i + 1, end)

\* the inner loop of "timeStack" for the request v, from the index i on
RECURSIVE stackOf(_, _, _, _)
stackOf(v, offs, i, end) ==
    IF i >= end THEN <<>>
    ELSE <<MetricRequest(v.Metric,
                         Int32(v.From + Int32(i * offs)),
                         Int32(v.Until + Int32(i * offs)))>>
         \o stackOf(v, offs, i + 1, end)

\* the outer loop of "timeStack" from the request k of r on
RECURSIVE stacksOf(_, _, _, _, _)
stacksOf(r, k, offs, start, end) ==
    IF k > Len(r) THEN <<>>
    ELSE stackOf(r[k], offs, start, end) \o stacksOf(r, k + 1, offs, start, end)

\* case "timeStack"
timeStackOf(r, offs, start, end) ==
    IF offs.err # "" \/ start.err # "" \/ end.err # "" THEN Returned(<<>>)
    ELSE Returned(stacksOf(r, 1, offs.v, Int32(start.v), Int32(end.v)))

\* case "holtWintersForecast", "holtWintersConfidenceBands", "holtWintersAberration"
holtWintersOf(r) ==
    Returned([i \in 1..Len(r) |->
                MetricRequest(r[i].Metric, Int32(r[i].From - 7 * 86400), r[i].Until)])

\* the body of the moving* case once e.args[1] is known to be a String
movingShiftOf(r, offs) ==
    IF offs.err # "" THEN Returned(<<>>)
    ELSE Returned([i \in 1..Len(r) |->
                     MetricRequest(r[i].Metric, Int32(r[i].From - offs.v), r[i].Until)])

\* case "movingAverage", ...: e.args[1] is read whatever the length of e.args
movingOf(e, r) ==
    IF Len(e.args) < 2 THEN Panicked
    ELSE IF e.args[2].etype = EtString THEN movingShiftOf(r, GetIntervalArg(e, 1, 1))
    ELSE Returned(r)

\* the switch without its cases but the holtWinters one
adjustedAsHoltWinters(e, r) == holtWintersOf(r)

\* the switch on e.target, r being the requests of the arguments
adjusted(e, r) ==
    IF e.target = TimeShiftName THEN timeShiftOf(r, GetIntervalArg(e, 1, 0 - 1))
    ELSE IF e.target = TimeStackName
    THEN timeStackOf(r, GetIntervalArg(e, 1, 0 - 1), GetIntArg(e, 2), GetIntArg(e, 3))
    ELSE IF e.target \in HoltWintersNames THEN holtWintersOf(r)
    ELSE IF e.target \in MovingNames THEN movingOf(e, r)
    ELSE Returned(r)

\* the EtFunc case after the loop over e.args returned m
funcMetrics(e, m) == IF m.panic THEN Panicked ELSE adjusted(e, m.r)

\* r = append(r, rest...) after a.Metrics() returned m
appended(m, rest) ==
    IF m.panic \/ rest.panic THEN Panicked ELSE Returned(m.r \o rest.r)

RECURSIVE ExprMetrics(_)
RECURSIVE argsMetrics(_, _)

\* for _, a := range e.args { r = append(r, a.Metrics()...) } from args[i] on
argsMetrics(args, i) ==
    IF i > Len(args) THEN Returned(<<>>)
    ELSE appended(ExprMetrics(args[i]), argsMetrics(args, i + 1))

\* e.Metrics()
ExprMetrics(e) ==
    IF e.etype = EtName THEN Returned(<<MetricRequest(e.target, 0, 0)>>)
    ELSE IF e.etype \in {EtConst, EtString} THEN Returned(<<>>)
    ELSE IF e.etype = EtFunc THEN funcMetrics(e, argsMetrics(e.args, 1))
    ELSE Returned(<<>>)

\* the caller adds the window of the request to a relative request
WithWindow(m, from, until) ==
    MetricRequest(m.Metric, Int32(m.From + from), Int32(m.Until + until))

-----------------------------------------------------------------------------
(* SpecMetrics: a target is parsed and Metrics is called on its tree.       *)

\* largest index written as an argument of timeStack in SpecMetrics
MaxIndex == 2

\* a  1  'x'  f(a,b)  f(a,k=b)  timeShift(a,'1h')  movingAverage(a,'2h')
\* holtWintersForecast(a)  movingSum(a)
SeriesTexts ==
    {<<"a">>,
     <<"1">>,
     <<"'", "x", "'">>,
     <<"f", "(", "a", ",", "b", ")">>,
     <<"f", "(", "a", ",", "k", "=", "b", ")">>,
     <<"t", "i", "m", "e", "S", "h", "i", "f", "t", "(", "a", ",", "'", "1", "h", "'", ")">>,
     <<"m", "o", "v", "i", "n", "g", "A", "v", "e", "r", "a", "g", "e", "(",
       "a", ",", "'", "2", "h", "'", ")">>,
     <<"h", "o", "l", "t", "W", "i", "n", "t", "e", "r", "s", "F", "o", "r",
       "e", "c", "a", "s", "t", "(", "a", ")">>,
     <<"m", "o", "v", "i", "n", "g", "S", "u", "m", "(", "a", ")">>}

\* '1h'  '-1h'  '+1h'  '30s'  '7d'  'x'  ''  1  b
OffsetTexts ==
    {<<"'", "1", "h", "'">>,
     <<"'", "-", "1", "h", "'">>,
     <<"'", "+", "1", "h", "'">>,
     <<"'", "3", "0", "s", "'">>,
     <<"'", "7", "d", "'">>,
     <<"'", "x", "'">>,
     <<"'", "'">>,
     <<"1">>,
     <<"b">>}

\* 0 .. MaxIndex  -1  1.5  'x'  b
IndexTexts ==
    {NatDigits(n) : n \in 0..MaxIndex}
    \cup {<<"-", "1">>,
          <<"1", ".", "5">>,
          <<"'", "x", "'">>,
          <<"b">>}

FName == <<"f">>
AdjustingNames == {TimeShiftName, TimeStackName} \cup HoltWintersNames \cup MovingNames

\* timeShift(metric, '-1h')
TimeShiftExample ==
    <<"t", "i", "m", "e", "S", "h", "i", "f", "t", "(", "m", "e", "t", "r",
      "i", "c", ",", " ", "'", "-", "1", "h", "'", ")">>

MetricsInputs ==
    SeriesTexts
    \cup {TimeShiftExample}
    \cup {CallText(n, <<>>) : n \in AdjustingNames \cup {FName}}
    \cup {CallText(n, s) : n \in AdjustingNames \cup {FName}, s \in SeriesTexts}
    \cup {CallText(n, Join(<<s, o>>, <<",">>)) :
            n \in AdjustingNames \cup {FName}, s \in SeriesTexts, o \in OffsetTexts}
    \cup {CallText(TimeStackName, Join(<<s, o, i>>, <<",">>)) :
            s \in SeriesTexts, o \in OffsetTexts, i \in IndexTexts}
    \cup {CallText(TimeStackName, Join(<<s, o, i, j>>, <<",">>)) :
            s \in SeriesTexts, o \in OffsetTexts, i \in IndexTexts, j \in IndexTexts}

InitMetrics ==
    /\ uIn \in MetricsInputs
    /\ uOut = <<>>
    /\ uPc = "parse"
    /\ FanOff /\ AppOff /\ TLDOff /\ ReqOff /\ ParseOff /\ PipeOff

\* exp, e, err := ParseExpr(target)
ParseTarget ==
    /\ uPc = "parse"
    /\ uOut' = [tree |-> ParseExpr(uIn), m |-> Returned(<<>>)]
    /\ uPc' = "parsed"
    /\ UNCHANGED <<uIn, parseVars, pipeVars, fanVars, appVars, tldVars, reqVars,
                   cntVars>>

\* exp.Metrics() on the tree of a target that parsed, whole
CallMetrics ==
    /\ uPc = "parsed"
    /\ uOut.tree.err = ""
    /\ uOut.tree.e = <<>>
    /\ uOut' = [uOut EXCEPT !.m = ExprMetrics(uOut.tree.exp)]
    /\ uPc' = "done"
    /\ UNCHANGED <<uIn, parseVars, pipeVars, fanVars, appVars, tldVars, reqVars,
                   cntVars>>

NextMetrics == ParseTarget \/ CallMetrics

SpecMetrics == InitMetrics /\ [][NextMetrics]_vars

RECURSIVE ConcatAll(_)
ConcatAll(seqs) == IF seqs = <<>> THEN <<>> ELSE Head(seqs) \o ConcatAll(Tail(seqs))

\* the requests of the positional arguments of e, each as Metrics returns it
ChildrenRequests(e) ==
    ConcatAll([i \in 1..Len(e.args) |-> ExprMetrics(e.args[i]).r])

ChildPanics(e) == \E i \in 1..Len(e.args) : ExprMetrics(e.args[i]).panic

\* a function Metrics does not adjust the requests of
Transparent(e) == e.etype = EtFunc /\ e.target \notin AdjustingNames

\* a finite list of requests
IsRequestList(r) ==
    /\ DOMAIN r = 1..Len(r)
    /\ \A i \in 1..Len(r) : DOMAIN r[i] = {"Metric", "From", "Until"}

ShiftSeconds ==
    (<<"1", "h">> :> 0 - 3600)
    @@ (<<"-", "1", "h">> :> 0 - 3600)
    @@ (<<"+", "1", "h">> :> 3600)
    @@ (<<"3", "0", "s">> :> 0 - 30)
    @@ (<<"7", "d">> :> 0 - 604800)

\* e is a call of timeShift with a series and a well-formed offset
IsTimeShift(e) ==
    /\ e.etype = EtFunc
    /\ e.target = TimeShiftName
    /\ Len(e.args) >= 2
    /\ e.args[2].etype = EtString
    /\ e.args[2].valStr \in DOMAIN ShiftSeconds

\* timeShift(timeShift(a,'1h'),'30s')
NestedTimeShift ==
    <<"t", "i", "m", "e", "S", "h", "i", "f", "t", "(", "t", "i", "m", "e", "S", "h", "i", "f", "t", "(", "a", ",", "'", "1", "h", "'", ")", ",", "'", "3", "0", "s", "'", ")">>

\* C16: for timeShift(series, offsetStr), Metrics() adds the same parsed offset
\* to both from and until of every request of the series argument, so that
\* until - from is preserved; an offset without a sign is taken as negative;
\* nested timeShift calls accumulate their offsets; with the outer window
\* (1000, 2000), timeShift(metric, '-1h') yields (metric, 1000-3600, 2000-3600).
C16_TimeShift ==
    uPc = "done" =>
        LET e == uOut.tree.exp
            m == uOut.m
        IN  /\ (IsTimeShift(e) /\ ~ChildPanics(e)) =>
                  /\ ~m.panic
                  /\ Len(m.r) = Len(ChildrenRequests(e))
                  /\ \A i \in 1..Len(m.r) :
                        LET c == ChildrenRequests(e)[i]
                            d == ShiftSeconds[e.args[2].valStr]
                        IN  /\ m.r[i].Metric = c.Metric
                            /\ m.r[i].From = c.From + d
                            /\ m.r[i].Until = c.Until + d
                            /\ m.r[i].Until - m.r[i].From = c.Until - c.From
            /\ uIn = NestedTimeShift =>
                  m = Returned(<<MetricRequest(<<"a">>, 0 - 3630, 0 - 3630)>>)
            /\ uIn = TimeShiftExample =>
                  /\ ~m.panic
                  /\ Len(m.r) = 1
                  /\ WithWindow(m.r[1], 1000, 2000)
                       = MetricRequest(<<"m", "e", "t", "r", "i", "c">>, 1000 - 3600, 2000 - 3600)

\* timeShift(movingAverage(a,'2h'),'+1h') has been extracted: the window of
\* two hours before the series is moved one hour on, whole
C16_Witness ==
    /\ uPc = "done"
    /\ uIn = <<"t", "i", "m", "e", "S", "h", "i", "f", "t", "(", "m", "o", "v", "i", "n", "g", "A", "v", "e", "r", "a", "g", "e", "(", "a", ",", "'", "2", "h", "'", ")", ",", "'", "+", "1", "h", "'", ")">>
    /\ IsTimeShift(uOut.tree.exp)
    /\ uOut.m = Returned(<<MetricRequest(<<"a">>, 0 - 3600, 3600)>>)

\* an argument of the time-adjusting function e is missing or of the wrong
\* type
BadAdjustingArgument(e) ==
    /\ e.etype = EtFunc
    /\ \/ /\ e.target = TimeShiftName
          /\ GetIntervalArg(e, 1, 0 - 1).err # ""
       \/ /\ e.target = TimeStackName
          /\ \/ GetIntervalArg(e, 1, 0 - 1).err # ""
             \/ GetIntArg(e, 2).err # ""
             \/ GetIntArg(e, 3).err # ""
       \/ /\ e.target \in MovingNames
          /\ \/ Len(e.args) < 2
             \/ /\ e.args[2].etype = EtString
                /\ GetIntervalArg(e, 1, 1).err # ""

\* C17: Metrics() never fails: for every tree the parser can produce it
\* returns without a runtime fault, and when an argument of a time-adjusting
\* function is missing or of the wrong type (timeShift without an offset,
\* timeStack with an index that is no number, a moving* function called with
\* a single argument) that Func node contributes no requests.
C17_AsStated ==
    uPc = "done" =>
        /\ ~uOut.m.panic
        /\ BadAdjustingArgument(uOut.tree.exp) => uOut.m.r = <<>>

\* the text of the index n as written in SpecMetrics
IndexText(n) == IF n < 0 THEN <<"-">> \o NatDigits(0 - n) ELSE NatDigits(n)

Indexes == (0 - 1)..MaxIndex

\* the node a is one of the whole numbers of Indexes
IsIndex(a) ==
    a.etype = EtConst /\ \E n \in Indexes : FormatFloat(a.val) = IndexText(n)

IndexOf(a) == CHOOSE n \in Indexes : FormatFloat(a.val) = IndexText(n)

\* e is a call of timeStack with a series, a well-formed offset and two
\* whole-number indexes
IsTimeStack(e) ==
    /\ e.etype = EtFunc
    /\ e.target = TimeStackName
    /\ Len(e.args) >= 4
    /\ e.args[2].etype = EtString
    /\ e.args[2].valStr \in DOMAIN ShiftSeconds
    /\ IsIndex(e.args[3])
    /\ IsIndex(e.args[4])

\* C20: for timeStack(series, offsetStr, startIdx, endIdx), Metrics() replaces
\* each request (m, from, until) of the series argument by exactly
\* endIdx - startIdx requests (m, from + i*offset, until + i*offset), one for
\* each i in [startIdx, endIdx) in increasing i; when endIdx <= startIdx it
\* emits no request for the series.
C20_TimeStack ==
    uPc = "done" =>
        LET e == uOut.tree.exp
            m == uOut.m
        IN  (IsTimeStack(e) /\ ~ChildPanics(e)) =>
                LET c     == ChildrenRequests(e)
                    d     == ShiftSeconds[e.args[2].valStr]
                    start == IndexOf(e.args[3])
                    end   == IndexOf(e.args[4])
                    k     == IF end > start THEN end - start ELSE 0
                IN  /\ ~m.panic
                    /\ Len(m.r) = Len(c) * k
                    /\ \A j \in 1..Len(c) : \A i \in start..(end - 1) :
                          m.r[(j - 1) * k + (i - start) + 1]
                            = MetricRequest(c[j].Metric,
                                            c[j].From + i * d,
                                            c[j].Until + i * d)

\* timeStack(f(a,b),'1h',-1,1) has been extracted: a an hour on and a as it
\* is, then b an hour on and b as it is
C20_Witness ==
    /\ uPc = "done"
    /\ uIn = <<"t", "i", "m", "e", "S", "t", "a", "c", "k", "(", "f", "(",
              "a", ",", "b", ")", ",", "'", "1", "h", "'", ",", "-", "1",
              ",", "1", ")">>
    /\ IsTimeStack(uOut.tree.exp)
    /\ uOut.m = Returned(<<MetricRequest(<<"a">>, 3600, 3600),
                           MetricRequest(<<"a">>, 0, 0),
                           MetricRequest(<<"b">>, 3600, 3600),
                           MetricRequest(<<"b">>, 0, 0)>>)

-----------------------------------------------------------------------------
(* SpecDivide: divideSeries applied to two series.  A sample is missing     *)
(* (NaN) or a fraction in lowest terms.                                     *)

\* longest series drawn in SpecDivide
MaxSeriesLen == 2

RECURSIVE GCD(_, _)
GCD(a, b) == IF b = 0 THEN a ELSE GCD(b, a % b)

Abs(x) == IF x < 0 THEN 0 - x ELSE x

\* math.NaN(), the missing sample
NaN == [present |-> FALSE, n |-> 0, d |-> 1]

\* the sample n/d in lowest terms with a positive denominator, d # 0
Fraction(n, d) ==
    [present |-> TRUE,
     n |-> (IF d < 0 THEN 0 - n ELSE n) \div GCD(Abs(n), Abs(d)),
     d |-> Abs(d) \div GCD(Abs(n), Abs(d))]

\* the sample of the whole number k
Num(k) == Fraction(k, 1)

\* a bucket of the quotient without the test of the denominator: x/0 counted
\* as the value 0
divideBucketZeroAsValue(a, b) ==
    IF ~a.present \/ ~b.present THEN NaN
    ELSE IF b.n = 0 THEN Num(0)
    ELSE Fraction(a.n * b.d, a.d * b.n)

\* a bucket of the quotient: present when both operands are present and the
\* denominator is not 0
divideBucket(a, b) ==
    IF ~a.present \/ ~b.present \/ b.n = 0 THEN NaN
    ELSE Fraction(a.n * b.d, a.d * b.n)

\* divideSeries(numerator, denominator) for two series of one step; past the
\* end of the denominator the bucket is missing
divideSeries(numerator, denominator) ==
    [i \in 1..Len(numerator) |->
        IF i > Len(denominator) THEN NaN
        ELSE divideBucket(numerator[i], denominator[i])]

\* the first case of TestDivideSeries: the two series and the expected values
TestDivideSeriesNumerator == <<Num(1), NaN, NaN, Num(3), Num(4), Num(12)>>
TestDivideSeriesDenominator == <<Num(2), NaN, Num(3), NaN, Num(0), Num(6)>>
TestDivideSeriesExpected == <<Fraction(1, 2), NaN, NaN, NaN, NaN, Num(2)>>

\* the last case of TestDivideSeries: a denominator shorter than the numerator
TestDifferentLengthNumerator == <<Num(1), NaN, Num(2), Num(3), Num(4)>>
TestDifferentLengthDenominator == <<Num(1), NaN, Num(2)>>
TestDifferentLengthExpected == <<Num(1), NaN, Num(1), NaN, NaN>>

Samples == {NaN, Num(0), Num(1), Num(2), Num(3)}

DivideInputs ==
    {[numerator |-> a, denominator |-> b] :
        a, b \in SeqsUpTo(Samples, MaxSeriesLen)}
    \cup {[numerator |-> TestDivideSeriesNumerator,
           denominator |-> TestDivideSeriesDenominator],
          [numerator |-> TestDifferentLengthNumerator,
           denominator |-> TestDifferentLengthDenominator]}

InitDivide ==
    /\ uIn \in DivideInputs
    /\ uOut = <<>>
    /\ uPc = "call"
    /\ FanOff /\ AppOff /\ TLDOff /\ ReqOff /\ ParseOff /\ PipeOff

\* the evaluation of divideSeries(metric1,metric2)
CallDivideSeries ==
    /\ uPc = "call"
    /\ uOut' = divideSeries(uIn.numerator, uIn.denominator)
    /\ uPc' = "done"
    /\ UNCHANGED <<uIn, parseVars, pipeVars, fanVars, appVars, tldVars, reqVars,
                   cntVars>>

NextDivide == CallDivideSeries

SpecDivide == InitDivide /\ [][NextDivide]_vars

\* C19: for two aligned input series, bucket i of divideSeries is present if
\* and only if the numerator and the denominator are both present at i and
\* the denominator is not 0, and it is then numerator[i]/denominator[i]; in
\* every other case the bucket is missing.  [1,NaN,NaN,3,4,12] divided by
\* [2,NaN,3,NaN,0,6] at step 1 gives [0.5, NaN, NaN, NaN, NaN, 2].
C19_MissingValues ==
    (uPc = "done" /\ Len(uIn.numerator) = Len(uIn.denominator)) =>
        /\ Len(uOut) = Len(uIn.numerator)
        /\ \A i \in 1..Len(uOut) :
              LET a == uIn.numerator[i]
                  b == uIn.denominator[i]
              IN  /\ uOut[i].present <=> (a.present /\ b.present /\ b.n # 0)
                  /\ ~uOut[i].present => uOut[i] = NaN
                  /\ uOut[i].present =>
                        /\ uOut[i].d > 0
                        /\ uOut[i].n * a.d * b.n = uOut[i].d * a.n * b.d
        /\ (/\ uIn.numerator = TestDivideSeriesNumerator
            /\ uIn.denominator = TestDivideSeriesDenominator)
             => uOut = <<[present |-> TRUE, n |-> 1, d |-> 2], NaN, NaN, NaN, NaN,
                         [present |-> TRUE, n |-> 2, d |-> 1]>>

\* the series of the example have been divided: a missing numerator, a
\* missing denominator and a denominator 0 each gave a missing bucket
C19_Witness ==
    /\ uPc = "done"
    /\ uIn.numerator = TestDivideSeriesNumerator
    /\ uIn.denominator = TestDivideSeriesDenominator
    /\ uOut = TestDivideSeriesExpected
    /\ ~uOut[3].present /\ ~uOut[4].present /\ ~uOut[5].present

-----------------------------------------------------------------------------
(* The typed argument accessors with a default.                             *)

\* a := e.getNamedArg(k); a != nil
hasNamedArg(e, k) == k \in DOMAIN e.namedArgs

\* e.getNamedArg(k), for a k that is present
getNamedArg(e, k) == e.namedArgs[k]

\* e.doGetFloatArg(): the value of a Const node
doGetFloatArg(a) ==
    IF a.etype # EtConst THEN ArgResult(ZeroVal, "ErrBadType")
    ELSE ArgResult(a.val, "")

\* e.doGetStringArg(): the string value of a String node
doGetStringArg(a) ==
    IF a.etype # EtString THEN ArgResult(<<>>, "ErrBadType")
    ELSE ArgResult(a.valStr, "")

\* e.doGetBoolArg(): the truth value of a true/false atom
doGetBoolArg(a) ==
    IF a.etype = EtString /\ ToLower(a.target) = <<"t", "r", "u", "e">>
    THEN ArgResult(TRUE, "")
    ELSE IF a.etype = EtString /\ ToLower(a.target) = <<"f", "a", "l", "s", "e">>
    THEN ArgResult(FALSE, "")
    ELSE ArgResult(FALSE, "ErrBadType")

\* e.GetIntArgDefault(n, d)
GetIntArgDefault(e, n, d) ==
    IF Len(e.args) <= n THEN ArgResult(d, "") ELSE doGetIntArg(e.args[n + 1])

\* GetIntNamedOrPosArgDefault with the positional argument looked at first
GetIntNamedOrPosArgDefaultPosFirst(e, k, n, d) ==
    IF Len(e.args) > n THEN doGetIntArg(e.args[n + 1])
    ELSE IF hasNamedArg(e, k) THEN doGetIntArg(getNamedArg(e, k))
    ELSE ArgResult(d, "")

\* e.GetIntNamedOrPosArgDefault(k, n, d)
GetIntNamedOrPosArgDefault(e, k, n, d) ==
    IF hasNamedArg(e, k) THEN doGetIntArg(getNamedArg(e, k))
    ELSE GetIntArgDefault(e, n, d)

\* e.GetFloatArgDefault(n, d)
GetFloatArgDefault(e, n, d) ==
    IF Len(e.args) <= n THEN ArgResult(d, "") ELSE doGetFloatArg(e.args[n + 1])

\* e.GetFloatNamedOrPosArgDefault(k, n, d)
GetFloatNamedOrPosArgDefault(e, k, n, d) ==
    IF hasNamedArg(e, k) THEN doGetFloatArg(getNamedArg(e, k))
    ELSE GetFloatArgDefault(e, n, d)

\* e.GetStringArgDefault(n, d)
GetStringArgDefault(e, n, d) ==
    IF Len(e.args) <= n THEN ArgResult(d, "") ELSE doGetStringArg(e.args[n + 1])

\* e.GetStringNamedOrPosArgDefault(k, n, d)
GetStringNamedOrPosArgDefault(e, k, n, d) ==
    IF hasNamedArg(e, k) THEN doGetStringArg(getNamedArg(e, k))
    ELSE GetStringArgDefault(e, n, d)

\* e.GetBoolArgDefault(n, d)
GetBoolArgDefault(e, n, d) ==
    IF Len(e.args) <= n THEN ArgResult(d, "") ELSE doGetBoolArg(e.args[n + 1])

\* e.GetBoolNamedOrPosArgDefault(k, n, d)
GetBoolNamedOrPosArgDefault(e, k, n, d) ==
    IF hasNamedArg(e, k) THEN doGetBoolArg(getNamedArg(e, k))
    ELSE GetBoolArgDefault(e, n, d)

-----------------------------------------------------------------------------
(* SpecArgs: a call is parsed and one accessor is applied to its tree.      *)

\* 5  'x'  true  a  k=3  k='y'  k=false  j=4
ArgEntryTexts ==
    {<<"5">>,
     <<"'", "x", "'">>,
     <<"t", "r", "u", "e">>,
     <<"a">>,
     <<"k", "=", "3">>,
     <<"k", "=", "'", "y", "'">>,
     <<"k", "=", "f", "a", "l", "s", "e">>,
     <<"j", "=", "4">>}

\* f(...) with at most MaxArgs entries
AccessorTexts ==
    {CallText(FName, Join(es, <<",">>)) : es \in SeqsUpTo(ArgEntryTexts, MaxArgs)}

\* the key looked up and the defaults handed over; no positional argument of
\* ArgEntryTexts has the value of the default of its type
KeyName == <<"k">>
Defaults ==
    [Int    |-> 7,
     Float  |-> [neg |-> FALSE, mant |-> 25, exp |-> 0 - 1],
     String |-> <<"d">>,
     Bool   |-> FALSE]

NamedOrPosAccessors ==
    {"GetIntNamedOrPosArgDefault", "GetFloatNamedOrPosArgDefault",
     "GetStringNamedOrPosArgDefault", "GetBoolNamedOrPosArgDefault"}
DefaultAccessors ==
    {"GetIntArgDefault", "GetFloatArgDefault", "GetStringArgDefault",
     "GetBoolArgDefault"}

\* the accessor op called on e for the key KeyName, the position n and the
\* default of its type
Access(op, e, n) ==
    CASE op = "GetIntNamedOrPosArgDefault" ->
           GetIntNamedOrPosArgDefault(e, KeyName, n, Defaults.Int)
      [] op = "GetFloatNamedOrPosArgDefault" ->
           GetFloatNamedOrPosArgDefault(e, KeyName, n, Defaults.Float)
      [] op = "GetStringNamedOrPosArgDefault" ->
           GetStringNamedOrPosArgDefault(e, KeyName, n, Defaults.String)
      [] op = "GetBoolNamedOrPosArgDefault" ->
           GetBoolNamedOrPosArgDefault(e, KeyName, n, Defaults.Bool)
      [] op = "GetIntArgDefault" -> GetIntArgDefault(e, n, Defaults.Int)
      [] op = "GetFloatArgDefault" -> GetFloatArgDefault(e, n, Defaults.Float)
      [] op = "GetStringArgDefault" -> GetStringArgDefault(e, n, Defaults.String)
      [] op = "GetBoolArgDefault" -> GetBoolArgDefault(e, n, Defaults.Bool)

InitArgs ==
    /\ uIn \in [text : AccessorTexts, n : 0..MaxArgs]
    /\ uOut = <<>>
    /\ uPc = "parse"
    /\ FanOff /\ AppOff /\ TLDOff /\ ReqOff /\ ParseOff /\ PipeOff

\* exp, e, err := ParseExpr(text)
ParseCall ==
    /\ uPc = "parse"
    /\ uOut' = [tree |-> ParseExpr(uIn.text), op |-> "", res |-> ArgResult(0, "")]
    /\ uPc' = "parsed"
    /\ UNCHANGED <<uIn, parseVars, pipeVars, fanVars, appVars, tldVars, reqVars,
                   cntVars>>

\* one accessor is called on the tree
CallAccessor ==
    /\ uPc = "parsed"
    /\ uOut.tree.err = ""
    /\ \E op \in NamedOrPosAccessors \cup DefaultAccessors :
          uOut' = [uOut EXCEPT !.op = op, !.res = Access(op, uOut.tree.exp, uIn.n)]
    /\ uPc' = "done"
    /\ UNCHANGED <<uIn, parseVars, pipeVars, fanVars, appVars, tldVars, reqVars,
                   cntVars>>

NextArgs == ParseCall \/ CallAccessor

SpecArgs == InitArgs /\ [][NextArgs]_vars

\* the default the accessor op was handed
DefaultOf(op) ==
    CASE op \in {"GetIntNamedOrPosArgDefault", "GetIntArgDefault"} -> Defaults.Int
      [] op \in {"GetFloatNamedOrPosArgDefault", "GetFloatArgDefault"} -> Defaults.Float
      [] op \in {"GetStringNamedOrPosArgDefault", "GetStringArgDefault"} ->
           Defaults.String
      [] op \in {"GetBoolNamedOrPosArgDefault", "GetBoolArgDefault"} -> Defaults.Bool

\* the node a read as the type of the accessor op
ReadAs(op, a) ==
    CASE op \in {"GetIntNamedOrPosArgDefault", "GetIntArgDefault"} -> doGetIntArg(a)
      [] op \in {"GetFloatNamedOrPosArgDefault", "GetFloatArgDefault"} ->
           doGetFloatArg(a)
      [] op \in {"GetStringNamedOrPosArgDefault", "GetStringArgDefault"} ->
           doGetStringArg(a)
      [] op \in {"GetBoolNamedOrPosArgDefault", "GetBoolArgDefault"} ->
           doGetBoolArg(a)

\* C18: Get{Int,Float,String,Bool}NamedOrPosArgDefault(k, n, d) resolves in a
\* fixed precedence: if the named argument k is present its value is used
\* (positional n and d are ignored); else if the positional argument n exists
\* its value is used; else d is returned without error.  The ...Default(n, d)
\* variants return d without error exactly when the positional slot n is
\* absent.
C18_Precedence ==
    uPc = "done" =>
        LET e       == uOut.tree.exp
            n       == uIn.n
            named   == KeyName \in DOMAIN e.namedArgs
            present == n < Len(e.args)
        IN  /\ uOut.op \in NamedOrPosAccessors =>
                  /\ named => uOut.res = ReadAs(uOut.op, e.namedArgs[KeyName])
                  /\ (~named /\ present) => uOut.res = ReadAs(uOut.op, e.args[n + 1])
                  /\ (~named /\ ~present) =>
                        uOut.res = ArgResult(DefaultOf(uOut.op), "")
            /\ uOut.op \in DefaultAccessors =>
                  /\ present => uOut.res = ReadAs(uOut.op, e.args[n + 1])
                  /\ uOut.res = ArgResult(DefaultOf(uOut.op), "") <=> ~present

\* f(5,k=3) has been asked for the integer k or the first argument or 7: the
\* named 3 is the answer
C18_Witness ==
    /\ uPc = "done"
    /\ uIn.text = <<"f", "(", "5", ",", "k", "=", "3", ")">>
    /\ uIn.n = 0
    /\ uOut.op = "GetIntNamedOrPosArgDefault"
    /\ uOut.res = ArgResult(3, "")

====
